---- MODULE Spec2Model ----
(***************************************************************************)
(* Model of the tool-augmented agent of problem-to-manim:                  *)
(*   - the text editor tool (src/src/agent/tools.ts, getTextEditorTool):   *)
(*     view / create / str_replace / insert over the file system;          *)
(*   - the bash tool (src/src/agent/tools.ts, getBashTool): execSync of a   *)
(*     command with a timeout and an output cap, or a restart;             *)
(*   - the agent loop started by handleGenerate (src/src/api/generate.ts): *)
(*     generateText(... stopWhen: stepCountIs(20)).                        *)
(*   - the server (src/src/agent/tools.ts, app.post("/api/generate")):     *)
(*     requests served on one thread, each with its output directory;      *)
(*   - topological_sort of the reverse knowledge tree                      *)
(*     (src/template/math-to-manim/reverse-knowledge-tree.md).             *)
(*                                                                         *)
(* Strings are sequences of UTF-16 code units, each written as a one-      *)
(* element TLA+ string.  "S" stands for an unpaired surrogate code unit    *)
(* and "R" for U+FFFD, the replacement character; the alphabet holds no    *)
(* surrogate pairs.  "X" stands for a byte that is not valid UTF-8.  The   *)
(* fixed texts of the tools are written as one element each.  The loop inside generateText is the AI SDK's: a step  *)
(* is one answer of the engine and the execution of its tool calls, and    *)
(* the loop asks again while the step had tool calls and stopWhen is not   *)
(* met.                                                                    *)
(***************************************************************************)
EXTENDS Integers, Sequences, FiniteSets, TLC

VARIABLES fs, pre, last, created, sh, lpc, nsteps, ncalls, pending, onlyTools,
          toolThrew, ret, usage, total, toolCalls, toolResults, turnFs, mode,
          stepText, allText, answers, engineFailed, failure, http, solo, who,
          soloResult, reqs, dirs, issued, thread, graph, sorted

vars ==
  <<fs, pre, last, created, sh, lpc, nsteps, ncalls, pending, onlyTools, toolThrew,
    ret, usage, total, toolCalls, toolResults, turnFs, mode, stepText, allText,
    answers, engineFailed, failure, http, solo, who, soloResult, reqs, dirs, issued,
    thread, graph, sorted>>
fsVars == <<fs, pre, last, created>>
turnVars == <<toolCalls, toolResults, turnFs>>
sessVars == <<solo, who, soloResult>>
srvVars == <<reqs, dirs, issued, thread>>
sortVars == <<graph, sorted>>
sideVars == <<sessVars, srvVars, sortVars>>
serverFrame ==
  <<fs, pre, last, created, sh, lpc, nsteps, ncalls, pending, onlyTools, toolThrew,
    ret, usage, total, toolCalls, toolResults, turnFs, mode, stepText, allText,
    answers, engineFailed, failure, http, solo, who, soloResult, graph, sorted>>
loopVars ==
  <<lpc, nsteps, ncalls, pending, onlyTools, toolThrew, ret, usage, total, turnVars,
    mode, stepText, allText, answers, engineFailed, failure, http, sideVars>>

(***************************************************************************)
(* Bounds of the model.                                                    *)
(***************************************************************************)
\* most code units the files hold together, in the directory model
MaxDisk == 4
\* most code units of the file in the str_replace model
MaxReplaceLen == 3
\* most code units of the file in the line model
MaxLineLen == 5
\* most tool calls the engine puts into one turn
MaxCalls == 2
\* the output cap of the bash tool, scaled down from 1024 * 1024 bytes
MaxBuffer == 3
\* the turns of one request the server model follows
MaxTurns == 2
\* maxCharacters of the editor tool, scaled down from 50000 characters
MaxCharacters == 3
\* most nodes of a knowledge tree drawn for the sort
MaxNodes == 4

(***************************************************************************)
(* Characters and the inputs the engine may send.                          *)
(***************************************************************************)
NL == "\n"
Surrogate == "S"
Replacement == "R"
InvalidByte == "X"

\* The inputs the engine sends in the directory model (Spec): every path,
\* short texts.  A view_range of <<>> stands for "no range given".
TreeInputs ==
  [paths |-> { "d", "d/f", "g", "./g" },
   file_text |-> { <<>>, <<"a">>, <<Surrogate>>, <<"a", NL, "a">> },
   old_str |-> { <<"a">>, <<Surrogate>> },
   new_str |-> { <<>>, <<"$", "&">> },
   insert_line |-> { 0, 2 },
   insert_text |-> { <<"a">> },
   view_range |-> { <<>>, <<1, 1>>, <<2, 3>> },
   cap |-> MaxDisk]

\* The inputs of the str_replace model (ReplaceSpec): one file, the
\* patterns and replacements that reach the cases of str_replace.
ReplaceInputs ==
  [paths |-> { "g" },
   file_text |-> { <<>>, <<"a", "b">>, <<"a", "b", "a">> },
   old_str |-> { <<>>, <<"a">>, <<"b", "a">>, <<Surrogate>> },
   new_str |-> { <<>>, <<"c">>, <<"$", "$">>, <<"$", "&">>, <<"$", "`">>,
                 <<"$", "'">>, <<Surrogate>> },
   insert_line |-> { 0 },
   insert_text |-> { <<"b">> },
   view_range |-> { <<>> },
   cap |-> MaxReplaceLen]

\* The inputs of the line model (LineSpec): one file, the line numbers,
\* texts and ranges that reach the cases of insert and view.
LineInputs ==
  [paths |-> { "g" },
   file_text |-> { <<>>, <<"a">>, <<"a", NL, "a">>, <<"a", NL, "c", NL, "a">> },
   old_str |-> { <<NL>> },
   new_str |-> { <<>> },
   insert_line |-> -1 .. 3,
   insert_text |-> { <<>>, <<"c">>, <<"c", NL, "c">>, <<Surrogate>> },
   view_range |-> { <<>> } \cup { <<s, e>> : s \in 0 .. 3, e \in { -1, 1, 2, 4 } },
   cap |-> MaxLineLen]

(***************************************************************************)
(* Paths.  The engine names a file by a path string; resolve() maps it to  *)
(* the absolute path.  Three files of the working directory are followed:  *)
(* d, d/f and g ("d" may be a directory).                                  *)
(***************************************************************************)
Nodes == { "d", "d/f", "g" }
Cwd == "."

\* resolution gone wrong: every path names the same file
resolveShared(path) == "g"

resolve(path) == IF path = "./g" THEN "g" ELSE path

dirname(node) == IF node = "d/f" THEN "d" ELSE Cwd

NoEntry == [kind |-> "none", data |-> <<>>]
DirEntry == [kind |-> "dir", data |-> <<>>]
FileEntry(data) == [kind |-> "file", data |-> data]

\* the entry at an absolute path; the working directory is a directory
EntryAt(f, node) == IF node = Cwd THEN DirEntry ELSE f[node]

existsSync(f, node) == EntryAt(f, node).kind # "none"

(***************************************************************************)
(* String primitives of the JavaScript runtime, as the tool uses them.     *)
(***************************************************************************)
\* encoding a string as UTF-8: an unpaired surrogate is written as U+FFFD
Utf8Encode(s) ==
  [i \in 1 .. Len(s) |-> IF s[i] = Surrogate THEN Replacement ELSE s[i]]

\* decoding UTF-8 gives the characters that were encoded, and U+FFFD for a
\* byte that is not valid UTF-8
Utf8Decode(data) ==
  [i \in 1 .. Len(data) |-> IF data[i] = InvalidByte THEN Replacement ELSE data[i]]

\* indexOf gone wrong: the index of the last occurrence
IndexOfLast(s, pat) ==
  LET hits == { i \in 0 .. (Len(s) - Len(pat)) :
                  SubSeq(s, i + 1, i + Len(pat)) = pat }
  IN  IF hits = {} THEN -1
      ELSE CHOOSE i \in hits : \A j \in hits : i >= j

\* String.prototype.indexOf: 0-based index of the first occurrence, or -1
IndexOf(s, pat) ==
  LET hits == { i \in 0 .. (Len(s) - Len(pat)) :
                  SubSeq(s, i + 1, i + Len(pat)) = pat }
  IN  IF hits = {} THEN -1
      ELSE CHOOSE i \in hits : \A j \in hits : i <= j

\* includes gone wrong: the check that never fails
IncludesAlways(s, pat) == TRUE

\* String.prototype.includes
Includes(s, pat) == IndexOf(s, pat) # -1

RECURSIVE GetSubstitution(_, _, _, _)
\* GetSubstitution of ECMAScript for a string pattern (no capture groups):
\* $$ is "$", $& the match, $` the text before it, $' the text after it
GetSubstitution(matched, before, after, repl) ==
  IF repl = <<>> THEN <<>>
  ELSE IF repl[1] = "$" /\ Len(repl) >= 2 /\ repl[2] = "$"
    THEN <<"$">> \o GetSubstitution(matched, before, after, SubSeq(repl, 3, Len(repl)))
  ELSE IF repl[1] = "$" /\ Len(repl) >= 2 /\ repl[2] = "&"
    THEN matched \o GetSubstitution(matched, before, after, SubSeq(repl, 3, Len(repl)))
  ELSE IF repl[1] = "$" /\ Len(repl) >= 2 /\ repl[2] = "`"
    THEN before \o GetSubstitution(matched, before, after, SubSeq(repl, 3, Len(repl)))
  ELSE IF repl[1] = "$" /\ Len(repl) >= 2 /\ repl[2] = "'"
    THEN after \o GetSubstitution(matched, before, after, SubSeq(repl, 3, Len(repl)))
  ELSE <<repl[1]>> \o GetSubstitution(matched, before, after, Tail(repl))

\* String.prototype.replace(pattern: string, replacement: string)
StringReplace(s, pat, repl) ==
  LET pos == IndexOf(s, pat)
      before == SubSeq(s, 1, pos)
      after == SubSeq(s, pos + Len(pat) + 1, Len(s))
  IN  IF pos = -1 THEN s
      ELSE before \o GetSubstitution(pat, before, after, repl) \o after

RECURSIVE Split(_)
\* String.prototype.split("\n")
Split(s) ==
  LET pos == IndexOf(s, <<NL>>)
  IN  IF pos = -1 THEN << s >>
      ELSE << SubSeq(s, 1, pos) >> \o Split(SubSeq(s, pos + 2, Len(s)))

RECURSIVE Join(_)
\* Array.prototype.join("\n")
Join(lines) ==
  IF lines = <<>> THEN <<>>
  ELSE IF Len(lines) = 1 THEN lines[1]
  ELSE lines[1] \o <<NL>> \o Join(Tail(lines))

\* the index an Array method makes of a relative index
RelativeIndex(k, len) ==
  IF k < 0 THEN (IF len + k < 0 THEN 0 ELSE len + k)
  ELSE (IF k > len THEN len ELSE k)

\* slice gone wrong: the end index taken as inclusive
SliceInclusive(lines, start, end) ==
  SubSeq(lines, RelativeIndex(start, Len(lines)) + 1,
         RelativeIndex(end + 1, Len(lines)))

\* Array.prototype.slice(start, end)
Slice(lines, start, end) ==
  SubSeq(lines, RelativeIndex(start, Len(lines)) + 1, RelativeIndex(end, Len(lines)))

\* splice gone wrong: a delete count of 1, so that the line at start is lost
SpliceOver(lines, start, item) ==
  LET at == RelativeIndex(start, Len(lines))
  IN  SubSeq(lines, 1, at) \o << item >> \o SubSeq(lines, at + 2, Len(lines))

\* Array.prototype.splice(start, 0, item)
Splice(lines, start, item) ==
  LET at == RelativeIndex(start, Len(lines))
  IN  SubSeq(lines, 1, at) \o << item >> \o SubSeq(lines, at + 1, Len(lines))

(***************************************************************************)
(* File system calls of node:fs, on the three files followed.              *)
(***************************************************************************)
Returned(f, out) == [fs |-> f, threw |-> FALSE, out |-> out]
Threw(f, code) == [fs |-> f, threw |-> TRUE, out |-> << code >>]

\* mkdirSync(dir, { recursive: true }): TRUE when it throws (dir is a file)
MkdirThrows(f, dir) == EntryAt(f, dir).kind = "file"

\* mkdirSync gone wrong: no directory is made
mkdirSyncNone(f, dir) == f

\* the file system after mkdirSync(dir, { recursive: true }) returned
mkdirSync(f, dir) ==
  IF dir # Cwd /\ f[dir].kind = "none" THEN [f EXCEPT ![dir] = DirEntry] ELSE f

\* writeFileSync(node, text, "utf-8"): TRUE when it throws (node is a directory)
WriteThrows(f, node) == EntryAt(f, node).kind = "dir"

\* writeFileSync gone wrong: the text is appended to what the file holds
writeFileSyncAppend(f, node, text) ==
  [f EXCEPT ![node] = FileEntry(f[node].data \o Utf8Encode(text))]

\* the file system after writeFileSync(node, text, "utf-8") returned
\* writing gone wrong: the other regular files are emptied
writeFileSyncTruncating(f, node, text) ==
  [n \in Nodes |-> IF n = node THEN FileEntry(Utf8Encode(text))
                   ELSE IF f[n].kind = "file" THEN FileEntry(<<>>)
                   ELSE f[n]]

writeFileSync(f, node, text) == [f EXCEPT ![node] = FileEntry(Utf8Encode(text))]

\* readFileSync(node, "utf-8"): TRUE when it throws (node is a directory)
ReadThrows(f, node) == EntryAt(f, node).kind = "dir"

\* the string readFileSync(node, "utf-8") returns
readFileSync(f, node) == Utf8Decode(f[node].data)

(***************************************************************************)
(* getTextEditorTool().execute, one operator per command.  Each gives the  *)
(* file system after the call, whether the call threw, and the text it     *)
(* returned.                                                               *)
(***************************************************************************)
\* view gone wrong: no check that the file exists, readFileSync throws
ExecViewUnchecked(f, path, range) ==
  LET fullPath == resolve(path)
  IN  IF ~existsSync(f, fullPath) THEN Threw(f, "ENOENT")
      ELSE IF ReadThrows(f, fullPath) THEN Threw(f, "EISDIR")
      ELSE LET content == readFileSync(f, fullPath)
           IN  IF range # <<>>
                 THEN Returned(f, Join(Slice(Split(content), range[1] - 1, range[2])))
                 ELSE Returned(f, content)

ExecView(f, path, range) ==
  LET fullPath == resolve(path)
  IN  IF ~existsSync(f, fullPath)
        THEN Returned(f, << "Error: File ", path, " not found" >>)
      ELSE IF ReadThrows(f, fullPath) THEN Threw(f, "EISDIR")
      ELSE LET content == readFileSync(f, fullPath)
           IN  IF range # <<>>
                 THEN Returned(f, Join(Slice(Split(content), range[1] - 1, range[2])))
                 ELSE Returned(f, content)

ExecCreate(f, path, file_text) ==
  LET fullPath == resolve(path)
  IN  IF MkdirThrows(f, dirname(fullPath)) THEN Threw(f, "EEXIST")
      ELSE IF WriteThrows(f, fullPath) THEN Threw(mkdirSync(f, dirname(fullPath)), "EISDIR")
      ELSE Returned(writeFileSync(mkdirSync(f, dirname(fullPath)), fullPath, file_text),
                    << "File created: ", path >>)

ExecStrReplace(f, path, old_str, new_str) ==
  LET fullPath == resolve(path)
  IN  IF ~existsSync(f, fullPath)
        THEN Returned(f, << "Error: File ", path, " not found for str_replace" >>)
      ELSE IF ReadThrows(f, fullPath) THEN Threw(f, "EISDIR")
      ELSE LET current == readFileSync(f, fullPath)
           IN  IF ~Includes(current, old_str)
                 THEN Returned(f, << "Error: old_str not found in ", path >>)
                 ELSE Returned(writeFileSync(f, fullPath,
                                             StringReplace(current, old_str, new_str)),
                               << "File updated: ", path >>)

\* insert gone wrong: no check that the file exists
ExecInsertUnchecked(f, path, insert_line, insert_text) ==
  LET fullPath == resolve(path)
      lines == Split(f[fullPath].data)
  IN  Returned([f EXCEPT ![fullPath] =
                  FileEntry(Utf8Encode(Join(Splice(lines, insert_line, insert_text))))],
               << "Text inserted at line ", ToString(insert_line), " in ", path >>)

ExecInsert(f, path, insert_line, insert_text) ==
  LET fullPath == resolve(path)
  IN  IF ~existsSync(f, fullPath)
        THEN Returned(f, << "Error: File ", path, " not found for insert" >>)
      ELSE IF ReadThrows(f, fullPath) THEN Threw(f, "EISDIR")
      ELSE LET lines == Split(readFileSync(f, fullPath))
           IN  Returned(writeFileSync(f, fullPath,
                                      Join(Splice(lines, insert_line, insert_text))),
                        << "Text inserted at line ", ToString(insert_line), " in ", path >>)

(***************************************************************************)
(* State of the editor model: fs is the file system, pre the file system   *)
(* before the last call, last the last call with its result, created[n]    *)
(* the text of the last create of n that no later edit of n has followed.  *)
(***************************************************************************)
NoCall ==
  [cmd |-> "none", path |-> "", text |-> <<>>, old |-> <<>>, new |-> <<>>,
   line |-> 0, range |-> <<>>, threw |-> FALSE, out |-> <<>>]

Call(cmd, path, text, old, new, line, range, r) ==
  [cmd |-> cmd, path |-> path, text |-> text, old |-> old, new |-> new,
   line |-> line, range |-> range, threw |-> r.threw, out |-> r.out]

NotCreated == << FALSE, <<>> >>

\* the files followed hold at most cap code units together
WithinBound(f, cap) == Len(f["d"].data) + Len(f["d/f"].data) + Len(f["g"].data) <= cap

EmptyFs == [n \in Nodes |-> NoEntry]

FsInit ==
  /\ fs = EmptyFs
  /\ pre = EmptyFs
  /\ last = NoCall
  /\ created = [n \in Nodes |-> NotCreated]

View(path, range) ==
  LET r == ExecView(fs, path, range)
  IN  /\ fs' = r.fs
      /\ pre' = fs
      /\ last' = Call("view", path, <<>>, <<>>, <<>>, 0, range, r)
      /\ UNCHANGED created

Create(path, file_text, cap) ==
  LET r == ExecCreate(fs, path, file_text)
  IN  /\ WithinBound(r.fs, cap)
      /\ fs' = r.fs
      /\ pre' = fs
      /\ last' = Call("create", path, file_text, <<>>, <<>>, 0, <<>>, r)
      /\ created' = IF r.threw THEN created
                    ELSE [created EXCEPT ![resolve(path)] = << TRUE, file_text >>]

\* the replacement gone wrong: it works on the content read before the previous
\* call and writes it back over what that call wrote
StrReplaceStale(path, old_str, new_str, cap) ==
  LET r == ExecStrReplace(pre, path, old_str, new_str)
      written == [fs EXCEPT ![resolve(path)] = r.fs[resolve(path)]]
  IN  /\ WithinBound(written, cap)
      /\ fs' = written
      /\ pre' = fs
      /\ last' = Call("str_replace", path, <<>>, old_str, new_str, 0, <<>>, r)
      /\ created' = created

StrReplace(path, old_str, new_str, cap) ==
  LET r == ExecStrReplace(fs, path, old_str, new_str)
  IN  /\ WithinBound(r.fs, cap)
      /\ fs' = r.fs
      /\ pre' = fs
      /\ last' = Call("str_replace", path, <<>>, old_str, new_str, 0, <<>>, r)
      /\ created' = IF r.fs = fs THEN created
                    ELSE [created EXCEPT ![resolve(path)] = NotCreated]

Insert(path, insert_line, insert_text, cap) ==
  LET r == ExecInsert(fs, path, insert_line, insert_text)
  IN  /\ WithinBound(r.fs, cap)
      /\ fs' = r.fs
      /\ pre' = fs
      /\ last' = Call("insert", path, insert_text, <<>>, <<>>, insert_line, <<>>, r)
      /\ created' = IF r.fs = fs THEN created
                    ELSE [created EXCEPT ![resolve(path)] = NotCreated]

ViewStep(in) == \E path \in in.paths, range \in in.view_range : View(path, range)
CreateStep(in) ==
  \E path \in in.paths, file_text \in in.file_text : Create(path, file_text, in.cap)
StrReplaceStep(in) ==
  \E path \in in.paths, old_str \in in.old_str, new_str \in in.new_str :
     StrReplace(path, old_str, new_str, in.cap)
InsertStep(in) ==
  \E path \in in.paths, insert_line \in in.insert_line, insert_text \in in.insert_text :
     Insert(path, insert_line, insert_text, in.cap)

(***************************************************************************)
(* getBashTool().execute.  A command is what the shell does with a command *)
(* string: whether the shell can be spawned, how long the command runs (in *)
(* ms), its exit status, the bytes it writes to stdout and to stderr, and  *)
(* the file it writes (<<>> for none, else <<node, text>>).                *)
(***************************************************************************)
TimeoutMs == 30000

Command(name, spawns, duration, status, stdout, stderr, writes) ==
  [name |-> name, spawns |-> spawns, duration |-> duration, status |-> status,
   stdout |-> stdout, stderr |-> stderr, writes |-> writes]

\* n bytes of output
Fill(n) == [i \in 1 .. n |-> "y"]

\* the commands the engine sends in the bash model
Commands ==
  { Command("true", TRUE, 10, 0, <<>>, <<>>, <<>>),
    Command("echo a", TRUE, 10, 0, <<"a", NL>>, <<>>, <<>>),
    Command("cat bin", TRUE, 10, 0, <<"a", InvalidByte>>, <<>>, <<>>),
    Command("echo b > g", TRUE, 10, 0, <<>>, <<>>, <<"g", <<"b">>>>),
    Command("at cap", TRUE, 10, 0, Fill(MaxBuffer), <<>>, <<>>),
    Command("yes", TRUE, 10, 0, Fill(MaxBuffer + 1), <<>>, <<>>),
    Command("ls x", TRUE, 10, 2, <<"o">>, <<"e">>, <<>>),
    Command("false", TRUE, 10, 1, <<>>, <<>>, <<>>),
    Command("sleep 60", TRUE, 60000, 0, <<"a">>, <<>>, <<>>),
    Command("no shell", FALSE, 0, 0, <<>>, <<>>, <<>>) }

\* the inputs of the editor in the bash model (BashSpec): one short file
BashInputs ==
  [paths |-> { "g" },
   file_text |-> { <<"a">> },
   old_str |-> { <<"a">> },
   new_str |-> { <<"c">> },
   insert_line |-> { 0 },
   insert_text |-> { <<"c">> },
   view_range |-> { <<>> },
   cap |-> MaxDisk]

\* the command is still running when the timeout expires
TimesOut(c) == c.duration > TimeoutMs

\* the cap gone wrong: no output is too long
OverCapNever(c) == FALSE

\* the command wrote more to stdout or stderr than maxBuffer allows
OverCap(c) == Len(c.stdout) > MaxBuffer \/ Len(c.stderr) > MaxBuffer

\* the timeout gone wrong: reported as any failed command is
TimeoutMessageGeneric(c) == << "Command failed: ", c.name >>

\* the message of the error execSync throws for a command it timed out
TimeoutMessage(c) == << "spawnSync /bin/sh ETIMEDOUT" >>

\* the message of the error execSync throws for a non-zero exit status
FailedMessage(c) ==
  << "Command failed: ", c.name >>
    \o (IF c.stderr # <<>> THEN << NL >> \o Utf8Decode(c.stderr) ELSE <<>>)

\* the first n bytes of an output
Cut(bytes, n) == SubSeq(bytes, 1, IF Len(bytes) < n THEN Len(bytes) ELSE n)

ExecReturned(stdout) ==
  [threw |-> FALSE, value |-> stdout, message |-> <<>>, stderr |-> <<>>, stdout |-> <<>>]
ExecThrew(message, stderr, stdout) ==
  [threw |-> TRUE, value |-> <<>>, message |-> message, stderr |-> stderr,
   stdout |-> stdout]

\* execSync(command, { timeout: 30000, encoding: "utf-8", maxBuffer: 1024 * 1024 }):
\* the string it returns, or the error it throws with the output captured so far
execSync(c) ==
  IF ~c.spawns THEN ExecThrew(<< "spawnSync /bin/sh ENOENT" >>, <<>>, <<>>)
  ELSE IF TimesOut(c)
    THEN ExecThrew(TimeoutMessage(c), Utf8Decode(c.stderr), Utf8Decode(c.stdout))
  ELSE IF OverCap(c)
    THEN ExecThrew(<< "spawnSync /bin/sh ENOBUFS" >>,
                   Utf8Decode(Cut(c.stderr, MaxBuffer)),
                   Utf8Decode(Cut(c.stdout, MaxBuffer)))
  ELSE IF c.status # 0
    THEN ExecThrew(FailedMessage(c), Utf8Decode(c.stderr), Utf8Decode(c.stdout))
  ELSE ExecReturned(Utf8Decode(c.stdout))

\* the file system after the shell ran the command
RunEffects(f, c) ==
  IF c.spawns /\ c.writes # <<>>
    THEN writeFileSync(f, c.writes[1], c.writes[2])
    ELSE f

\* the success text gone wrong: the output is trimmed
SuccessTextTrimmed(result) ==
  IF result # <<>> /\ result[Len(result)] = NL
    THEN SubSeq(result, 1, Len(result) - 1)
    ELSE result

\* result || "Command executed successfully (no output)"
SuccessText(result) ==
  IF result = <<>> THEN << "Command executed successfully (no output)" >> ELSE result

\* the error text gone wrong: the message alone
ErrorTextMessageOnly(error) == << "Error: " >> \o error.message

\* `Error: ${error.message}\nStderr: ${error.stderr || ""}\nStdout: ${error.stdout || ""}`
ErrorText(error) ==
  << "Error: " >> \o error.message \o << "\nStderr: " >> \o error.stderr
    \o << "\nStdout: " >> \o error.stdout

\* what execute gives: the file system after it, whether it threw, the text
\* it returned, and how many times it started the command
Ran(f, out) == [fs |-> f, threw |-> FALSE, out |-> out, runs |-> 1]
NotRun(f, out) == [fs |-> f, threw |-> FALSE, out |-> out, runs |-> 0]

\* the try / catch gone wrong: a command that failed is started again
RunCommandRetries(f, c) ==
  LET r == execSync(c)
  IN  IF r.threw
        THEN [fs |-> RunEffects(RunEffects(f, c), c), threw |-> FALSE,
              out |-> ErrorText(r), runs |-> 2]
        ELSE Ran(RunEffects(f, c), SuccessText(r.value))

\* the try / catch around execSync
RunCommand(f, c) ==
  LET r == execSync(c)
  IN  IF r.threw THEN Ran(RunEffects(f, c), ErrorText(r))
      ELSE Ran(RunEffects(f, c), SuccessText(r.value))

\* execute gone wrong: the restart flag is not looked at
ExecBashNoRestart(f, c, restart) == RunCommand(f, c)

\* execute({ command, restart })
ExecBash(f, c, restart) ==
  IF restart THEN NotRun(f, << "Bash session restarted" >>)
  ELSE RunCommand(f, c)

\* the result the loop makes of what a tool's execute gave: an error result
\* when execute threw, else a result with the returned text
ToolResult(r) == [out |-> r.out, isError |-> r.threw]

NoBash ==
  [command |-> Command("", FALSE, 0, 0, <<>>, <<>>, <<>>), restart |-> FALSE,
   runs |-> 0, result |-> ToolResult(NotRun(EmptyFs, <<>>))]

BashInit == sh = NoBash

\* one call of the bash tool; sh is the call and its result
Bash(c, restart) ==
  LET r == ExecBash(fs, c, restart)
  IN  /\ fs' = r.fs
      /\ pre' = fs
      /\ last' = [NoCall EXCEPT !.cmd = "bash", !.threw = r.threw, !.out = r.out]
      /\ sh' = [command |-> c, restart |-> restart, runs |-> r.runs,
                result |-> ToolResult(r)]
      /\ created' = [n \in Nodes |-> IF r.fs[n] = fs[n] THEN created[n] ELSE NotCreated]

BashStep == \E c \in Commands, restart \in BOOLEAN : Bash(c, restart)

(***************************************************************************)
(* The agent loop: handleGenerate awaits generateText({..., stopWhen:      *)
(* stepCountIs(20)}).  Each step is one request to the engine followed by  *)
(* the execution of the tool calls it answered with; the loop goes on      *)
(* while the last step had tool calls and the stop condition is not met.   *)
(*   lpc       where the handler is: "idle", "model" (awaiting the         *)
(*             engine), "tools" (executing a turn's calls), "finished"     *)
(*             (generateText resolved), "returned", "failed"               *)
(*   nsteps    result.steps.length                                         *)
(*   ncalls    tool calls of the current turn, pending those not yet run   *)
(*   onlyTools every answer of the engine so far asked for a tool call     *)
(*   toolThrew some tool call so far threw instead of returning           *)
(*   usage     result.usage: the token usage of the last step              *)
(*   total     the token usage of all steps so far, added up               *)
(*   toolCalls the tool calls of the current turn, toolResults the results *)
(*             of those executed so far, turnFs the file system when the   *)
(*             engine answered                                             *)
(*   ret       what handleGenerate returned                                *)
(*   mode      the handler called: "blocking" (generateText) or            *)
(*             "streaming" (streamText)                                    *)
(*   stepText  result.text: the text of the last step                      *)
(*   allText   the texts of all steps so far, one after the other          *)
(*   answers   the number of answers the engine has given                  *)
(*   engineFailed  a request to the engine has failed                      *)
(*   failure   the error the handler, or the route before it, threw        *)
(*   http      the response of the route POST /api/generate                *)
(***************************************************************************)
StepLimit == 20

Modes == { "blocking", "streaming" }

\* an Error object
Error(message, stack) == [message |-> message, stack |-> stack]

NoError == Error("", "")

\* the errors a request to the engine fails with
EngineErrors == { Error("Service Unavailable", "at fetch"), Error("", "at read") }

\* the error the promises of streamText reject with when no step was recorded
NoOutputGeneratedError ==
  Error("No output generated. Check the stream for errors.", "at flush")

\* the errors thrown before the loop starts: c.req.json() cannot parse the
\* body, mkdirSync cannot make the output directory
RequestErrors == { Error("Unexpected token", "at JSON.parse"),
                   Error("EEXIST: file already exists, mkdir", "at mkdirSync") }

\* the texts the engine puts into one answer
StepTexts == { <<>>, << "t" >> }

NoResponse == [status |-> 0, body |-> <<>>]

\* the token usage of one request to the engine
Usage(input, output) ==
  [inputTokens |-> input, outputTokens |-> output, totalTokens |-> input + output]

ZeroUsage == Usage(0, 0)

AddUsage(a, b) == Usage(a.inputTokens + b.inputTokens, a.outputTokens + b.outputTokens)

\* the usages the engine reports for a step
StepUsages == { Usage(1, 1), Usage(2, 1) }

NoResult == [steps |-> -1, usage |-> ZeroUsage, text |-> <<>>]

\* stepCountIs gone wrong: one step too many, one step too few
StopWhenLate(n) == n = StepLimit + 1
StopWhenEarly(n) == n = StepLimit - 1

\* stepCountIs(20): met when the number of steps is the limit
StopWhen(n) == n = StepLimit

\* the loop gone wrong: it asks again after an answer without tool calls
LoopContinuesAfterText(calls, n) == ~StopWhen(n)

\* the loop asks the engine again after a step with calls tool calls that
\* made the number of steps n
LoopContinues(calls, n) == calls > 0 /\ ~StopWhen(n)

LoopInit ==
  /\ lpc = "idle"
  /\ nsteps = 0
  /\ ncalls = 0
  /\ pending = 0
  /\ onlyTools = TRUE
  /\ toolThrew = FALSE
  /\ ret = NoResult
  /\ usage = ZeroUsage
  /\ total = ZeroUsage
  /\ toolCalls = <<>>
  /\ toolResults = <<>>
  /\ turnFs = EmptyFs
  /\ mode = "blocking"
  /\ stepText = <<>>
  /\ allText = <<>>
  /\ answers = 0
  /\ engineFailed = FALSE
  /\ failure = NoError
  /\ http = NoResponse

\* the handler m rejects when a request to the engine fails after n recorded
\* steps: generateText rejects; streamText puts the error into the stream,
\* where onError logs it, and its promises text, usage and steps resolve
\* with the steps recorded, or reject when there is none
HandlerRejects(m, n) == m = "blocking" \/ n = 0

\* the error the handler m rejects with when a request fails with e
Rejection(m, e) == IF m = "blocking" THEN e ELSE NoOutputGeneratedError

\* the route calls handleGenerate, which calls generateText or streamText
StartGenerate(m) ==
  /\ lpc = "idle"
  /\ lpc' = "model"
  /\ mode' = m
  /\ UNCHANGED <<nsteps, ncalls, pending, onlyTools, toolThrew, ret, usage, total,
                 stepText, allText, answers, engineFailed, failure, http>>

\* the engine answers with text and no tool call, and reports the usage u
\* of the request: the step is complete
EngineText(u, t) ==
  /\ lpc = "model"
  /\ usage' = u
  /\ total' = AddUsage(total, u)
  /\ stepText' = t
  /\ allText' = allText \o t
  /\ answers' = answers + 1
  /\ nsteps' = nsteps + 1
  /\ ncalls' = 0
  /\ pending' = 0
  /\ onlyTools' = FALSE
  /\ lpc' = IF LoopContinues(0, nsteps + 1) THEN "model" ELSE "finished"
  /\ UNCHANGED <<toolThrew, ret, mode, engineFailed, failure, http>>

\* the engine answers with k tool calls, and reports the usage u of the
\* request
EngineToolCalls(k, u, t) ==
  /\ lpc = "model"
  /\ usage' = u
  /\ total' = AddUsage(total, u)
  /\ stepText' = t
  /\ allText' = allText \o t
  /\ answers' = answers + 1
  /\ ncalls' = k
  /\ pending' = k
  /\ lpc' = "tools"
  /\ UNCHANGED <<nsteps, onlyTools, toolThrew, ret, mode, engineFailed, failure, http>>

\* the request to the engine fails with the error e (after the attempts the
\* engine's client makes of one request): no further request is made
EngineError(e) ==
  /\ lpc = "model"
  /\ engineFailed' = TRUE
  /\ IF HandlerRejects(mode, nsteps)
       THEN /\ lpc' = "failed"
            /\ failure' = Rejection(mode, e)
       ELSE /\ lpc' = "finished"
            /\ UNCHANGED failure
  /\ UNCHANGED <<nsteps, ncalls, pending, onlyTools, toolThrew, ret, usage, total,
                 mode, stepText, allText, answers, http>>

\* the execution gone wrong: the first call run completes the step
ToolCallSkips(threw) ==
  /\ lpc = "tools"
  /\ pending > 0
  /\ pending' = 0
  /\ nsteps' = nsteps + 1
  /\ lpc' = IF LoopContinues(ncalls, nsteps + 1) THEN "model" ELSE "finished"
  /\ toolThrew' = (toolThrew \/ threw)
  /\ UNCHANGED <<ncalls, onlyTools, ret, usage, total, mode, stepText, allText, answers,
                 engineFailed, failure, http>>

\* the execution gone wrong: every tool call run counts as a step
ToolCallCounts(threw) ==
  /\ lpc = "tools"
  /\ pending > 0
  /\ pending' = pending - 1
  /\ nsteps' = nsteps + 1
  /\ lpc' = IF pending = 1
            THEN (IF LoopContinues(ncalls, nsteps + 1) THEN "model" ELSE "finished")
            ELSE lpc
  /\ toolThrew' = (toolThrew \/ threw)
  /\ UNCHANGED <<ncalls, onlyTools, ret, usage, total, mode, stepText, allText, answers,
                 engineFailed, failure, http>>

\* the next tool call of the turn is executed; its returned text, or the
\* error it threw, becomes its result.  The last one completes the step.
ToolCall(threw) ==
  /\ lpc = "tools"
  /\ pending > 0
  /\ pending' = pending - 1
  /\ IF pending = 1
       THEN /\ nsteps' = nsteps + 1
            /\ lpc' = IF LoopContinues(ncalls, nsteps + 1) THEN "model" ELSE "finished"
       ELSE UNCHANGED <<nsteps, lpc>>
  /\ toolThrew' = (toolThrew \/ threw)
  /\ UNCHANGED <<ncalls, onlyTools, ret, usage, total, mode, stepText, allText, answers,
                 engineFailed, failure, http>>

\* the return gone wrong: returning counts as a step of the loop
ReturnResultCounts ==
  /\ lpc = "finished"
  /\ nsteps' = nsteps + 1
  /\ ret' = [steps |-> nsteps + 1, usage |-> usage, text |-> stepText]
  /\ lpc' = "returned"
  /\ UNCHANGED <<ncalls, pending, onlyTools, toolThrew, usage, total, mode,
                 stepText, allText, answers, engineFailed, failure, http>>

\* handleGenerate returns { requestId, text, usage, steps }
ReturnResult ==
  /\ lpc = "finished"
  /\ ret' = [steps |-> nsteps, usage |-> usage, text |-> stepText]
  /\ lpc' = "returned"
  /\ UNCHANGED <<nsteps, ncalls, pending, onlyTools, toolThrew, usage, total, mode,
                 stepText, allText, answers, engineFailed, failure, http>>

\* the route cannot read the body, or handleGenerate cannot make the output
\* directory: the error e is thrown before the loop starts
RequestFails(e) ==
  /\ lpc = "idle"
  /\ lpc' = "failed"
  /\ failure' = e
  /\ UNCHANGED <<nsteps, ncalls, pending, onlyTools, toolThrew, ret, usage, total,
                 mode, stepText, allText, answers, engineFailed, http>>

\* what the catch of the route answers for the error e
ErrorBody(e) ==
  [error |-> IF e.message = "" THEN "Internal server error" ELSE e.message,
   details |-> e.stack]

\* the route answers: c.json(result), or c.json({ error, details }, 500)
Respond ==
  /\ lpc \in { "returned", "failed" }
  /\ http' = IF lpc = "returned" THEN [status |-> 200, body |-> ret]
             ELSE [status |-> 500, body |-> ErrorBody(failure)]
  /\ lpc' = "answered"
  /\ UNCHANGED <<nsteps, ncalls, pending, onlyTools, toolThrew, ret, usage, total,
                 mode, stepText, allText, answers, engineFailed, failure>>

(***************************************************************************)
(* The loop with its tools.  The engine answers with a list of tool calls; *)
(* generateText looks each one up in tools and calls its execute, in the   *)
(* order of the list.  The execute of both tools has no await in its body, *)
(* so a call runs from its start to its result in one piece.               *)
(***************************************************************************)
EditorTool == "str_replace_based_edit_tool"
BashTool == "bash"

NoCommand == Command("", FALSE, 0, 0, <<>>, <<>>, <<>>)

\* the input of a call of the editor tool, and of the bash tool
EditorInput(command, path, file_text, old_str, new_str, insert_line, insert_text, view_range) ==
  [tool |-> EditorTool, command |-> command, path |-> path, file_text |-> file_text,
   old_str |-> old_str, new_str |-> new_str, insert_line |-> insert_line,
   insert_text |-> insert_text, view_range |-> view_range, bash |-> NoCommand,
   restart |-> FALSE]
BashInput(c, restart) ==
  [tool |-> BashTool, command |-> "", path |-> "", file_text |-> <<>>,
   old_str |-> <<>>, new_str |-> <<>>, insert_line |-> 0, insert_text |-> <<>>,
   view_range |-> <<>>, bash |-> c, restart |-> restart]

\* the tool calls the engine sends in the turn model (TurnSpec)
TurnInputs ==
  { EditorInput("create", "g", <<"a">>, <<>>, <<>>, 0, <<>>, <<>>),
    EditorInput("view", "g", <<>>, <<>>, <<>>, 0, <<>>, <<>>),
    EditorInput("str_replace", "g", <<>>, <<"b">>, <<"c">>, 0, <<>>, <<>>),
    BashInput(Command("ls x", TRUE, 10, 2, <<"o">>, <<"e">>, <<>>), FALSE),
    BashInput(Command("sleep 60", TRUE, 60000, 0, <<"a">>, <<>>, <<>>), FALSE),
    BashInput(Command("no shell", FALSE, 0, 0, <<>>, <<>>, <<>>), FALSE) }

\* the lists of tool calls of one answer
Turns == UNION { [1 .. n -> TurnInputs] : n \in 1 .. MaxCalls }

\* the usage of a step in the turn model
TurnUsages == { Usage(1, 1) }

\* what the execute of the tool of a call gives on the file system f
Execute(f, in) ==
  IF in.tool = BashTool THEN ExecBash(f, in.bash, in.restart)
  ELSE IF in.command = "view" THEN ExecView(f, in.path, in.view_range)
  ELSE IF in.command = "create" THEN ExecCreate(f, in.path, in.file_text)
  ELSE IF in.command = "str_replace"
    THEN ExecStrReplace(f, in.path, in.old_str, in.new_str)
  ELSE ExecInsert(f, in.path, in.insert_line, in.insert_text)

\* the order gone wrong: the calls of a turn are run last to first
NextCallReversed(n, left) == left

\* the position in the turn of the call run next, of n calls with left to run
NextCall(n, left) == n - left + 1

\* the engine answers with the tool calls cs
TurnToolCalls(cs, u) ==
  /\ EngineToolCalls(Len(cs), u, <<>>)
  /\ toolCalls' = [i \in 1 .. Len(cs) |-> [toolCallId |-> i, input |-> cs[i]]]
  /\ toolResults' = <<>>
  /\ turnFs' = fs
  /\ UNCHANGED <<fsVars, sh>>

\* the engine answers with text
TurnText(u) ==
  /\ EngineText(u, << "t" >>)
  /\ toolCalls' = <<>>
  /\ toolResults' = <<>>
  /\ turnFs' = fs
  /\ UNCHANGED <<fsVars, sh>>

\* the next tool call of the turn is executed and its result appended
ExecuteToolCall ==
  /\ lpc = "tools"
  /\ pending > 0
  /\ LET call == toolCalls[NextCall(ncalls, pending)]
         in == call.input
         r == Execute(fs, in)
     IN  /\ ToolCall(r.threw)
         /\ toolResults' =
              Append(toolResults, [toolCallId |-> call.toolCallId, result |-> ToolResult(r)])
         /\ IF in.tool = BashTool THEN Bash(in.bash, in.restart)
            ELSE /\ UNCHANGED sh
                 /\ IF in.command = "view" THEN View(in.path, in.view_range)
                    ELSE IF in.command = "create"
                      THEN Create(in.path, in.file_text, MaxDisk)
                    ELSE IF in.command = "str_replace"
                      THEN StrReplace(in.path, in.old_str, in.new_str, MaxDisk)
                    ELSE Insert(in.path, in.insert_line, in.insert_text, MaxDisk)
  /\ UNCHANGED <<toolCalls, turnFs>>

(***************************************************************************)
(* Sessions.  Every request has its own output directory and its own tool  *)
(* objects, made by getTextEditorTool() and getBashTool(); the tools keep  *)
(* no state of their own, and the requests of one process take turns on    *)
(* one thread, a tool call running from its start to its result without    *)
(* giving way.  Two sessions are followed, each with the paths it names:   *)
(*   solo[s]     the file system as it would be had only session s run     *)
(*   who         the session of the last call                              *)
(*   soloResult  what the last call would have given had only its session  *)
(*               run                                                       *)
(***************************************************************************)
Sessions == { 1, 2 }

\* the files of a session
SessionNodes(s) == IF s = 1 THEN { "d", "d/f" } ELSE { "g" }

\* the tool calls the engine of a session sends (SessionSpec)
SessionInputs(s) ==
  IF s = 1
    THEN { EditorInput("create", "d/f", <<"a">>, <<>>, <<>>, 0, <<>>, <<>>),
           EditorInput("view", "d/f", <<>>, <<>>, <<>>, 0, <<>>, <<>>),
           EditorInput("str_replace", "d/f", <<>>, <<"a">>, <<"c">>, 0, <<>>, <<>>),
           EditorInput("insert", "d/f", <<>>, <<>>, <<>>, 1, <<"c">>, <<>>) }
    ELSE { EditorInput("create", "./g", <<"a">>, <<>>, <<>>, 0, <<>>, <<>>),
           EditorInput("view", "g", <<>>, <<>>, <<>>, 0, <<>>, <<>>),
           EditorInput("str_replace", "g", <<>>, <<"a">>, <<"c">>, 0, <<>>, <<>>),
           EditorInput("insert", "g", <<>>, <<>>, <<>>, 0, <<"c">>, <<>>),
           BashInput(Command("echo b > g", TRUE, 10, 0, <<>>, <<>>, <<"g", <<"b">>>>),
                     FALSE) }

NoSoloResult == [threw |-> FALSE, out |-> <<>>]

SessionInit ==
  /\ solo = [s \in Sessions |-> EmptyFs]
  /\ who = 0
  /\ soloResult = NoSoloResult

\* session s runs one tool call
SessionCall(s, in) ==
  /\ IF in.tool = BashTool THEN Bash(in.bash, in.restart)
     ELSE /\ UNCHANGED sh
          /\ IF in.command = "view" THEN View(in.path, in.view_range)
             ELSE IF in.command = "create" THEN Create(in.path, in.file_text, MaxDisk)
             ELSE IF in.command = "str_replace"
               THEN StrReplace(in.path, in.old_str, in.new_str, MaxDisk)
             ELSE Insert(in.path, in.insert_line, in.insert_text, MaxDisk)
  /\ LET alone == Execute(solo[s], in)
     IN  /\ solo' = [solo EXCEPT ![s] = alone.fs]
         /\ soloResult' = [threw |-> alone.threw, out |-> alone.out]
  /\ who' = s

(***************************************************************************)
(* The server.  One Node process serves every request on one thread: the   *)
(* route POST /api/generate reads the body and calls handleGenerate, which *)
(* names the request, makes its output directory and starts the loop.  A   *)
(* handler gives way only where it awaits; execSync does not return until  *)
(* the command has ended, and nothing else of the process runs meanwhile.  *)
(*   reqs    for each request: where its handler is, its body, what the    *)
(*           handler computed, the turns of its loop, whether the client   *)
(*           has given the request up and where the handler was then       *)
(*   dirs    the directories that exist under the working directory        *)
(*   issued  the identifiers randomUUID has returned                       *)
(*   thread  the request whose command holds the thread in execSync, or 0  *)
(***************************************************************************)
Requests == { 1, 2 }

\* a request body without the field model
Undefined == "undefined"

\* the values of the field model of a request body
BodyModels == { Undefined, "", "openai/gpt-5" }

\* the identifiers randomUUID draws from
Uuids == { "u1", "u2", "u3" }

\* randomUUID(): a version 4 UUID, taken to be one not returned before
randomUUID(given) == Uuids \ given

\* a || b of JavaScript for strings
Or(a, b) == IF a \in { Undefined, "" } THEN b ELSE a

\* join(process.cwd(), "generated", requestId)
OutputDir(requestId) == << Cwd, "generated", requestId >>

\* mkdirSync gone wrong: nothing is made
mkdirSyncRecursiveNone(ds, dir) == ds

\* mkdirSync(dir, { recursive: true }): dir and its missing parents
mkdirSyncRecursive(ds, dir) == ds \cup { SubSeq(dir, 1, i) : i \in 1 .. Len(dir) }

\* the model handleGenerate logs for the body model m
LoggedModel(m) == Or(m, "anthropic/claude-sonnet-4.5")

\* the model handleGenerate hands to the gateway for the body model m
GatewayModel(m) == Or(m, "anthropic/claude-haiku-4.5")

NoRequest ==
  [pc |-> "none", model |-> Undefined, requestId |-> "", outputDir |-> <<>>,
   logged |-> "", used |-> "", turns |-> 0, asked |-> 0, cancelled |-> FALSE,
   cancelledIn |-> ""]

ServerInit ==
  /\ reqs = [r \in Requests |-> NoRequest]
  /\ dirs = { << Cwd >> }
  /\ issued = {}
  /\ thread = 0

\* the thread gone wrong: a command that runs does not hold it
BlockedNever(t) == FALSE

\* the thread is inside execSync
Blocked(t) == t # 0

\* the route is entered for request r, whose body has the model m, and awaits
\* c.req.json()
Receive(r, m) ==
  /\ ~Blocked(thread)
  /\ reqs[r].pc = "none"
  /\ reqs' = [reqs EXCEPT ![r].pc = "received", ![r].model = m]
  /\ UNCHANGED <<dirs, issued, thread>>

\* handleGenerate up to its await: the request is named and logged, the
\* output directory is made (made says whether mkdirSync returned or threw),
\* and generateText sends the first request to the engine
HandleGenerate(r, made) ==
  /\ ~Blocked(thread)
  /\ reqs[r].pc = "received"
  /\ \E requestId \in randomUUID(issued) :
       /\ issued' = issued \cup { requestId }
       /\ dirs' = IF made THEN mkdirSyncRecursive(dirs, OutputDir(requestId)) ELSE dirs
       /\ reqs' = [reqs EXCEPT ![r].requestId = requestId,
                               ![r].outputDir = OutputDir(requestId),
                               ![r].logged = LoggedModel(reqs[r].model),
                               ![r].used = IF made THEN GatewayModel(reqs[r].model) ELSE "",
                               ![r].asked = IF made THEN 1 ELSE 0,
                               ![r].pc = IF made THEN "model" ELSE "failed"]
  /\ UNCHANGED thread

\* where the loop of a request goes after its turn number n
AfterTurn(calls, n) == IF calls > 0 /\ n < MaxTurns THEN "model" ELSE "finished"

\* the engine answers request r with text: the turn ends the loop
EngineAnswersText(r) ==
  /\ ~Blocked(thread)
  /\ reqs[r].pc = "model"
  /\ reqs' = [reqs EXCEPT ![r].turns = @ + 1, ![r].pc = "finished"]
  /\ UNCHANGED <<dirs, issued, thread>>

\* the engine answers request r with a call of the tool named tool
EngineAnswersCall(r, tool) ==
  /\ ~Blocked(thread)
  /\ reqs[r].pc = "model"
  /\ reqs' = [reqs EXCEPT ![r].pc = tool]
  /\ UNCHANGED <<dirs, issued, thread>>

\* the loop asks the engine again after a turn with a tool call
AskAgain(q, r) ==
  [q EXCEPT ![r].turns = @ + 1,
            ![r].pc = AfterTurn(1, q[r].turns + 1),
            ![r].asked = IF AfterTurn(1, q[r].turns + 1) = "model" THEN @ + 1 ELSE @]

\* the editor tool of request r runs its call, start to end
EditorCall(r) ==
  /\ ~Blocked(thread)
  /\ reqs[r].pc = EditorTool
  /\ reqs' = AskAgain(reqs, r)
  /\ UNCHANGED <<dirs, issued, thread>>

\* the bash tool of request r calls execSync: the command starts
CommandStarts(r) ==
  /\ ~Blocked(thread)
  /\ reqs[r].pc = BashTool
  /\ reqs' = [reqs EXCEPT ![r].pc = "execSync"]
  /\ thread' = r
  /\ UNCHANGED <<dirs, issued>>

\* execSync returns or throws: the command has exited, timed out or failed
CommandEnds(r) ==
  /\ reqs[r].pc = "execSync"
  /\ reqs' = AskAgain(reqs, r)
  /\ thread' = 0
  /\ UNCHANGED <<dirs, issued>>

\* handleGenerate returns or has thrown, and the route answers request r
Answer(r) ==
  /\ ~Blocked(thread)
  /\ reqs[r].pc \in { "finished", "failed" }
  /\ reqs' = [reqs EXCEPT ![r].pc = "answered"]
  /\ UNCHANGED <<dirs, issued, thread>>

\* the client gives request r up while it is served.  Neither the route nor
\* handleGenerate reads the signal of the request, and generateText is given
\* no abortSignal: the handler goes on as before.
Cancel(r) ==
  /\ reqs[r].pc \notin { "none", "answered" }
  /\ ~reqs[r].cancelled
  /\ reqs' = [reqs EXCEPT ![r].cancelled = TRUE, ![r].cancelledIn = reqs[r].pc]
  /\ UNCHANGED <<dirs, issued, thread>>

(***************************************************************************)
(* The reverse knowledge tree (template/math-to-manim/reverse-knowledge-   *)
(* tree.md).  explore() builds a tree of KnowledgeNode objects, and        *)
(* topological_sort(root) lists its nodes by a depth-first walk that skips *)
(* a node whose concept it has seen.  A tree is a sequence of nodes, a     *)
(* node is named by its position, and the root is node 1; of a node the    *)
(* sort reads the concept and the prerequisites only.                      *)
(*   graph   the tree handed to topological_sort                           *)
(*   sorted  the nodes it returned, <<>> before the call                   *)
(***************************************************************************)
KnowledgeNode(concept, prerequisites) ==
  [concept |-> concept, prerequisites |-> prerequisites]

Root == 1

\* the concepts of the trees drawn
Concepts == { "A", "B", "C" }

\* the elements of a set of numbers, smallest first
Ascending(S) ==
  [k \in 1 .. Cardinality(S) |-> CHOOSE c \in S : Cardinality({ d \in S : d < c }) = k - 1]

\* the tree of n nodes in which par[i] is the parent of node i, the children
\* of a node in the order of their numbers
TreeOf(n, par, con) ==
  [i \in 1 .. n |->
     KnowledgeNode(con[i], Ascending({ j \in 2 .. n : par[j] = i }))]

\* every tree of at most MaxNodes nodes over Concepts
SmallTrees ==
  UNION { { TreeOf(n, par, con) :
              par \in { f \in [2 .. n -> 1 .. n] : \A j \in 2 .. n : f[j] < j },
              con \in [1 .. n -> Concepts] } : n \in 1 .. MaxNodes }

\* the example tree of the document
QuantumTree ==
  << KnowledgeNode("quantum tunneling", << 2, 6, 9 >>),
     KnowledgeNode("wave-particle duality", << 3, 4 >>),
     KnowledgeNode("de Broglie wavelength", <<>>),
     KnowledgeNode("Heisenberg uncertainty principle", << 5 >>),
     KnowledgeNode("wave function", <<>>),
     KnowledgeNode("Schrodinger equation", << 7, 8 >>),
     KnowledgeNode("wave function", <<>>),
     KnowledgeNode("potential energy", <<>>),
     KnowledgeNode("potential barriers", <<>>) >>

\* a tree explore() builds with max_depth 4: the concept A is cut off as a
\* foundation at depth 4 and has the prerequisite C at depth 1
CutoffTree ==
  << KnowledgeNode("R", << 2, 6 >>),
     KnowledgeNode("X1", << 3 >>),
     KnowledgeNode("X2", << 4 >>),
     KnowledgeNode("X3", << 5 >>),
     KnowledgeNode("A", <<>>),
     KnowledgeNode("A", << 7 >>),
     KnowledgeNode("C", <<>>) >>

\* the trees handed to topological_sort
SortInputs == SmallTrees \cup { QuantumTree, CutoffTree }

RECURSIVE dfs(_, _, _)
RECURSIVE dfsEach(_, _, _)
RECURSIVE dfsEachBackwards(_, _, _)

\* the walk gone wrong: the prerequisites are visited last to first
dfsEachBackwards(g, prereqs, walk) ==
  IF prereqs = <<>> THEN walk
  ELSE dfsEachBackwards(g, SubSeq(prereqs, 1, Len(prereqs) - 1),
                        dfs(g, prereqs[Len(prereqs)], walk))

\* for prereq in node.prerequisites: dfs(prereq)
dfsEach(g, prereqs, walk) ==
  IF prereqs = <<>> THEN walk
  ELSE dfsEach(g, Tail(prereqs), dfs(g, Head(prereqs), walk))

\* dfs(node): walk holds visited and result
dfs(g, node, walk) ==
  IF g[node].concept \in walk.visited THEN walk
  ELSE LET entered == [walk EXCEPT !.visited = @ \cup { g[node].concept }]
           after == dfsEach(g, g[node].prerequisites, entered)
       IN  [after EXCEPT !.result = Append(@, node)]

topological_sort(g, root) == dfs(g, root, [visited |-> {}, result |-> <<>>]).result

SortInit ==
  /\ graph = <<>>
  /\ sorted = <<>>

\* the tree is built and topological_sort is called on its root
TopologicalSort ==
  /\ graph # <<>>
  /\ sorted = <<>>
  /\ sorted' = topological_sort(graph, Root)
  /\ UNCHANGED graph

Init == FsInit /\ BashInit /\ LoopInit /\ SessionInit /\ ServerInit /\ SortInit

Next ==
  \/ ViewStep(TreeInputs) /\ UNCHANGED <<sh, loopVars>>
  \/ CreateStep(TreeInputs) /\ UNCHANGED <<sh, loopVars>>
  \/ StrReplaceStep(TreeInputs) /\ UNCHANGED <<sh, loopVars>>
  \/ InsertStep(TreeInputs) /\ UNCHANGED <<sh, loopVars>>

Spec == Init /\ [][Next]_vars

ReplaceNext ==
  \/ ViewStep(ReplaceInputs) /\ UNCHANGED <<sh, loopVars>>
  \/ CreateStep(ReplaceInputs) /\ UNCHANGED <<sh, loopVars>>
  \/ StrReplaceStep(ReplaceInputs) /\ UNCHANGED <<sh, loopVars>>
  \/ InsertStep(ReplaceInputs) /\ UNCHANGED <<sh, loopVars>>

ReplaceSpec == Init /\ [][ReplaceNext]_vars

LineNext ==
  \/ ViewStep(LineInputs) /\ UNCHANGED <<sh, loopVars>>
  \/ CreateStep(LineInputs) /\ UNCHANGED <<sh, loopVars>>
  \/ StrReplaceStep(LineInputs) /\ UNCHANGED <<sh, loopVars>>
  \/ InsertStep(LineInputs) /\ UNCHANGED <<sh, loopVars>>

LineSpec == Init /\ [][LineNext]_vars

\* the bash tool, and the editor on one short file
BashNext ==
  \/ BashStep /\ UNCHANGED loopVars
  \/ ViewStep(BashInputs) /\ UNCHANGED <<sh, loopVars>>
  \/ CreateStep(BashInputs) /\ UNCHANGED <<sh, loopVars>>
  \/ StrReplaceStep(BashInputs) /\ UNCHANGED <<sh, loopVars>>
  \/ InsertStep(BashInputs) /\ UNCHANGED <<sh, loopVars>>

BashSpec == Init /\ [][BashNext]_vars

\* the loop alone: the tools are left out, a tool call returns or throws
LoopNext ==
  \/ StartGenerate("blocking") /\ UNCHANGED <<fsVars, sh, turnVars, sideVars>>
  \/ (\E u \in StepUsages, t \in StepTexts : EngineText(u, t))
       /\ UNCHANGED <<fsVars, sh, turnVars, sideVars>>
  \/ (\E k \in 1 .. MaxCalls, u \in StepUsages, t \in StepTexts :
         EngineToolCalls(k, u, t))
       /\ UNCHANGED <<fsVars, sh, turnVars, sideVars>>
  \/ (\E e \in EngineErrors : EngineError(e)) /\ UNCHANGED <<fsVars, sh, turnVars, sideVars>>
  \/ (\E threw \in BOOLEAN : ToolCall(threw)) /\ UNCHANGED <<fsVars, sh, turnVars, sideVars>>
  \/ ReturnResult /\ UNCHANGED <<fsVars, sh, turnVars, sideVars>>

LoopSpec == Init /\ [][LoopNext]_vars

\* the loop with the tools
TurnNext ==
  \/ StartGenerate("blocking") /\ UNCHANGED <<fsVars, sh, turnVars, sideVars>>
  \/ (\E u \in TurnUsages : TurnText(u)) /\ UNCHANGED sideVars
  \/ (\E cs \in Turns, u \in TurnUsages : TurnToolCalls(cs, u)) /\ UNCHANGED sideVars
  \/ (\E e \in EngineErrors : EngineError(e)) /\ UNCHANGED <<fsVars, sh, turnVars, sideVars>>
  \/ ExecuteToolCall /\ UNCHANGED sideVars
  \/ ReturnResult /\ UNCHANGED <<fsVars, sh, turnVars, sideVars>>

TurnSpec == Init /\ [][TurnNext]_vars

\* two sessions of one process, their tool calls in any order
SessionNext ==
  \/ (\E in \in SessionInputs(1) : SessionCall(1, in))
       /\ UNCHANGED <<lpc, nsteps, ncalls, pending, onlyTools, toolThrew, ret, usage,
                      total, turnVars, mode, stepText, allText, answers, engineFailed,
                      failure, http, srvVars, sortVars>>
  \/ (\E in \in SessionInputs(2) : SessionCall(2, in))
       /\ UNCHANGED <<lpc, nsteps, ncalls, pending, onlyTools, toolThrew, ret, usage,
                      total, turnVars, mode, stepText, allText, answers, engineFailed,
                      failure, http, srvVars, sortVars>>

SessionSpec == Init /\ [][SessionNext]_vars

\* topological_sort on every tree of SortInputs
SortStart ==
  /\ FsInit /\ BashInit /\ LoopInit /\ SessionInit /\ ServerInit
  /\ graph \in SortInputs
  /\ sorted = <<>>

SortNext ==
  \/ TopologicalSort
       /\ UNCHANGED <<fsVars, sh, lpc, nsteps, ncalls, pending, onlyTools, toolThrew, ret,
                      usage, total, turnVars, mode, stepText, allText, answers,
                      engineFailed, failure, http, sessVars, srvVars>>

SortSpec == SortStart /\ [][SortNext]_vars

\* the server with two requests
ServerNext ==
  \/ (\E r \in Requests, m \in BodyModels : Receive(r, m)) /\ UNCHANGED serverFrame
  \/ (\E r \in Requests, made \in BOOLEAN : HandleGenerate(r, made))
       /\ UNCHANGED serverFrame
  \/ (\E r \in Requests : EngineAnswersText(r)) /\ UNCHANGED serverFrame
  \/ (\E r \in Requests, tool \in { EditorTool, BashTool } : EngineAnswersCall(r, tool))
       /\ UNCHANGED serverFrame
  \/ (\E r \in Requests : EditorCall(r)) /\ UNCHANGED serverFrame
  \/ (\E r \in Requests : CommandStarts(r)) /\ UNCHANGED serverFrame
  \/ (\E r \in Requests : CommandEnds(r)) /\ UNCHANGED serverFrame
  \/ (\E r \in Requests : Answer(r)) /\ UNCHANGED serverFrame
  \/ (\E r \in Requests : Cancel(r)) /\ UNCHANGED serverFrame

ServerSpec == Init /\ [][ServerNext]_vars

\* the route POST /api/generate with either handler; the tools are left out
RouteNext ==
  \/ (\E m \in Modes : StartGenerate(m)) /\ UNCHANGED <<fsVars, sh, turnVars, sideVars>>
  \/ (\E e \in RequestErrors : RequestFails(e)) /\ UNCHANGED <<fsVars, sh, turnVars, sideVars>>
  \/ (\E u \in StepUsages, t \in StepTexts : EngineText(u, t))
       /\ UNCHANGED <<fsVars, sh, turnVars, sideVars>>
  \/ (\E k \in 1 .. MaxCalls, u \in StepUsages, t \in StepTexts :
         EngineToolCalls(k, u, t))
       /\ UNCHANGED <<fsVars, sh, turnVars, sideVars>>
  \/ (\E e \in EngineErrors : EngineError(e)) /\ UNCHANGED <<fsVars, sh, turnVars, sideVars>>
  \/ (\E threw \in BOOLEAN : ToolCall(threw)) /\ UNCHANGED <<fsVars, sh, turnVars, sideVars>>
  \/ ReturnResult /\ UNCHANGED <<fsVars, sh, turnVars, sideVars>>
  \/ Respond /\ UNCHANGED <<fsVars, sh, turnVars, sideVars>>

RouteSpec == Init /\ [][RouteNext]_vars

\* every await of the handler resumes: the engine answers, tools finish
LoopFairSpec == Init /\ [][LoopNext]_vars /\ WF_vars(LoopNext)

(***************************************************************************)
(* Vocabulary of the properties.                                           *)
(***************************************************************************)
\* the absolute path the last call addressed
LastNode == resolve(last.path)

\* the last call addressed a regular file that existed before the call
OnFile == last.cmd # "none" /\ pre[LastNode].kind = "file"

\* a text without unpaired surrogate code units
WellFormed(t) == \A i \in 1 .. Len(t) : t[i] # Surrogate

\* the 0-based positions at which pat occurs in s
Occurrences(s, pat) ==
  { i \in 0 .. (Len(s) - Len(pat)) : SubSeq(s, i + 1, i + Len(pat)) = pat }

\* the three texts the tool returns for a missing file
NotFoundText(cmd, path) ==
  IF cmd = "view" THEN << "Error: File ", path, " not found" >>
  ELSE IF cmd = "str_replace"
    THEN << "Error: File ", path, " not found for str_replace" >>
  ELSE << "Error: File ", path, " not found for insert" >>

(***************************************************************************)
(* C1 (as stated).  After create(p, t) has returned, and after any calls   *)
(* that do not address the file of p, view(p) without a range returns      *)
(* exactly t, for every text t.                                            *)
(***************************************************************************)
C1_RoundTripEveryText ==
  \A path \in TreeInputs.paths :
     created[resolve(path)][1] =>
        ExecView(fs, path, <<>>) = Returned(fs, created[resolve(path)][2])

(***************************************************************************)
(* C1 (amended).  After create(p, t) has returned, and after any calls     *)
(* that do not address the file of p, view(p) without a range returns      *)
(* exactly t, for every text t without unpaired surrogate code units;      *)
(* every text comes back as its UTF-8 round trip.                           *)
(***************************************************************************)
C1_RoundTripWellFormed ==
  \A path \in TreeInputs.paths :
     LET c == created[resolve(path)]
     IN  c[1] =>
           /\ WellFormed(c[2]) => ExecView(fs, path, <<>>) = Returned(fs, c[2])
           /\ ExecView(fs, path, <<>>) = Returned(fs, Utf8Encode(c[2]))

\* g was created with two lines and a str_replace in d/f followed
C1_Witness ==
  /\ created["g"] = << TRUE, << "a", NL, "a" >> >>
  /\ last.cmd = "str_replace"
  /\ LastNode = "d/f"
  /\ fs # pre

(***************************************************************************)
(* C2.  view, str_replace and insert on a path that does not exist return  *)
(* the file-not-found error text and leave the file system as it was; a    *)
(* create on such a path makes the file.                                   *)
(***************************************************************************)
C2_MissingFileNotFound ==
  /\ (last.cmd \in { "view", "str_replace", "insert" } /\ ~existsSync(pre, LastNode)) =>
        /\ ~last.threw
        /\ last.out = NotFoundText(last.cmd, last.path)
        /\ fs = pre
  /\ (last.cmd = "create" /\ ~existsSync(pre, LastNode) /\ ~last.threw) =>
        fs[LastNode].kind = "file"

\* an insert into d/f, which does not exist because d is a regular file
C2_Witness ==
  /\ last.cmd = "insert"
  /\ last.path = "d/f"
  /\ pre["d"].kind = "file"
  /\ pre["g"].kind = "file"
  /\ last.out = << "Error: File ", "d/f", " not found for insert" >>

(***************************************************************************)
(* C3.  create(p, t) needs no precondition on p: it returns whether p is   *)
(* absent or a regular file (it throws only the I/O faults: p is a         *)
(* directory, or the parent of p is a regular file), and when it returned  *)
(* the parent directory exists and the file holds exactly (the UTF-8       *)
(* encoding of) t, whatever it held before.                                *)
(***************************************************************************)
C3_CreateUnconditional ==
  last.cmd = "create" =>
     LET parent == dirname(LastNode)
     IN  /\ last.threw <=>
              (EntryAt(pre, parent).kind = "file" \/ pre[LastNode].kind = "dir")
         /\ ~last.threw =>
              /\ fs[LastNode] = FileEntry(Utf8Encode(last.text))
              /\ EntryAt(fs, parent).kind = "dir"
              /\ last.out = << "File created: ", last.path >>

\* d/f held other text and was created again
C3_Witness ==
  /\ last.cmd = "create"
  /\ last.path = "d/f"
  /\ ~last.threw
  /\ pre["d/f"].kind = "file"
  /\ pre["d/f"].data # <<>>
  /\ last.text = <<>>
  /\ fs["d/f"].data = <<>>

(***************************************************************************)
(* Vocabulary of the str_replace and line properties.                      *)
(***************************************************************************)
\* what the addressed file held before the last call, and holds now
Before == pre[LastNode].data
After == fs[LastNode].data

\* the position of the leftmost occurrence of the last call's old_str
FirstAt == CHOOSE i \in Occurrences(Before, last.old) :
              \A j \in Occurrences(Before, last.old) : i <= j

\* the text left and right of the leftmost occurrence
LeftOfFirst == SubSeq(Before, 1, FirstAt)
RightOfFirst == SubSeq(Before, FirstAt + Len(last.old) + 1, Len(Before))

\* the last call was a str_replace, on a regular file, that returned
ReplaceReturned == last.cmd = "str_replace" /\ OnFile /\ ~last.threw

(***************************************************************************)
(* C4.  str_replace on a file with exactly one occurrence of old_str       *)
(* leaves the content with that occurrence replaced by new_str taken       *)
(* literally, and the length changed by len(new_str) - len(old_str)        *)
(* (stated for a non-empty old_str, and for the content as encoded).       *)
(***************************************************************************)
C4_ReplaceLiteral ==
  (ReplaceReturned /\ last.old # <<>> /\ Cardinality(Occurrences(Before, last.old)) = 1) =>
     /\ After = Utf8Encode(LeftOfFirst \o last.new \o RightOfFirst)
     /\ Len(After) = Len(Before) + Len(last.new) - Len(last.old)

(***************************************************************************)
(* C5.  str_replace on an existing file without an occurrence of old_str   *)
(* returns the old_str-not-found error text and leaves the file system     *)
(* as it was; the same call made again gives the same result and state.    *)
(***************************************************************************)
C5_PatternNotFound ==
  (last.cmd = "str_replace" /\ OnFile /\ Occurrences(Before, last.old) = {}) =>
     /\ ~last.threw
     /\ last.out = << "Error: old_str not found in ", last.path >>
     /\ fs = pre
     /\ ExecStrReplace(fs, last.path, last.old, last.new) = Returned(fs, last.out)

\* "ba" was looked for in a file that holds other text
C5_Witness ==
  /\ last.cmd = "str_replace"
  /\ OnFile
  /\ last.old = << "b", "a" >>
  /\ Before = << "a", "b" >>
  /\ last.new = << "$", "&" >>

(***************************************************************************)
(* C6.  When old_str occurs more than once, str_replace replaces the       *)
(* leftmost occurrence only: the text before it and the text after it,     *)
(* later occurrences included, stay as they were.                          *)
(***************************************************************************)
C6_FirstOccurrenceOnly ==
  (ReplaceReturned /\ Cardinality(Occurrences(Before, last.old)) > 1) =>
     /\ last.out = << "File updated: ", last.path >>
     /\ Len(After) >= Len(LeftOfFirst) + Len(RightOfFirst)
     /\ SubSeq(After, 1, Len(LeftOfFirst)) = LeftOfFirst
     /\ SubSeq(After, Len(After) - Len(RightOfFirst) + 1, Len(After)) = RightOfFirst
     /\ \A f \in Nodes \ { LastNode } : fs[f] = pre[f]

\* "a" was replaced by "c" in "aba"
C6_Witness ==
  /\ ReplaceReturned
  /\ Before = << "a", "b", "a" >>
  /\ last.old = << "a" >>
  /\ After = << "c", "b", "a" >>

(***************************************************************************)
(* Lines.                                                                  *)
(***************************************************************************)
\* the lines of the addressed file before and after the last call, and the
\* lines of the inserted text as the file holds them
LinesBefore == Split(Before)
LinesAfter == Split(After)
LinesInserted == Split(Utf8Encode(last.text))

\* the last call was an insert, on a regular file, that returned
InsertReturned == last.cmd = "insert" /\ OnFile /\ ~last.threw

\* the inserted lines stand at 0-based line at, the lines before at keep
\* their place and the lines from at on follow the inserted ones
InsertedAt(at) ==
  /\ at \in 0 .. Len(LinesBefore)
  /\ Len(LinesAfter) = Len(LinesBefore) + Len(LinesInserted)
  /\ \A k \in 1 .. Len(LinesAfter) :
        LinesAfter[k] =
           IF k <= at THEN LinesBefore[k]
           ELSE IF k <= at + Len(LinesInserted) THEN LinesInserted[k - at]
           ELSE LinesBefore[k - Len(LinesInserted)]

(***************************************************************************)
(* C7 (as stated).  insert(p, i, text) adds exactly the lines of text, the *)
(* inserted lines start at 0-based line i and the previous lines keep      *)
(* content and order, for every i >= 0, i at or beyond the line count      *)
(* included.                                                               *)
(***************************************************************************)
C7_InsertAtEveryIndex == (InsertReturned /\ last.line >= 0) => InsertedAt(last.line)

(***************************************************************************)
(* C7 (amended).  insert(p, i, text) adds exactly the lines of text and    *)
(* the previous lines keep content and order; the inserted lines start at  *)
(* 0-based line i when 0 <= i <= n (n the line count before), at line n    *)
(* when i > n, and at line max(n + i, 0) when i < 0.                       *)
(***************************************************************************)
C7_InsertAtClampedIndex ==
  InsertReturned =>
     LET n == Len(LinesBefore)
         i == last.line
     IN  /\ (0 <= i /\ i <= n) => InsertedAt(i)
         /\ i > n => InsertedAt(n)
         /\ (i < 0 /\ n + i >= 0) => InsertedAt(n + i)
         /\ n + i < 0 => InsertedAt(0)

\* two lines were inserted at line 3 of a file of one line
C7_Witness ==
  /\ InsertReturned
  /\ Before = << "a" >>
  /\ last.line = 3
  /\ last.text = << "c", NL, "c" >>
  /\ After = << "a", NL, "c", NL, "c" >>

(***************************************************************************)
(* C8.  view(p, [startLine, endLine]) on an existing file, with 1-based    *)
(* line numbers, returns the lines startLine..endLine (both inclusive, as  *)
(* far as the file has them) joined by newlines; view(p) without a range   *)
(* returns the whole content; the file system is the same afterwards.      *)
(***************************************************************************)
C8_ViewRange ==
  (last.cmd = "view" /\ OnFile) =>
     /\ ~last.threw
     /\ fs = pre
     /\ last.range = <<>> => last.out = Before
     /\ (last.range # <<>> /\ last.range[1] >= 1 /\ last.range[2] >= 1) =>
          LET s == last.range[1]
              e == IF last.range[2] > Len(LinesBefore) THEN Len(LinesBefore)
                   ELSE last.range[2]
              wanted == [k \in 1 .. (IF e < s THEN 0 ELSE e - s + 1) |->
                           LinesBefore[s + k - 1]]
          IN  last.out = Join(wanted)

\* lines 2..2 of a file of three lines were viewed
C8_Witness ==
  /\ last.cmd = "view"
  /\ OnFile
  /\ Before = << "a", NL, "c", NL, "a" >>
  /\ last.range = << 2, 2 >>
  /\ last.out = << "c" >>

(***************************************************************************)
(* C9.  The loop never has more than StepLimit completed steps, and the    *)
(* steps value handleGenerate returns is never greater than StepLimit,     *)
(* whatever the engine answers.                                            *)
(***************************************************************************)
C9_StepsWithinLimit ==
  /\ nsteps <= StepLimit
  /\ ret.steps <= StepLimit
  /\ lpc = "returned" => ret.steps = nsteps

\* the handler returned after the limit of steps, the last one with text
C9_Witness ==
  /\ lpc = "returned"
  /\ ret.steps = StepLimit
  /\ ~onlyTools

(***************************************************************************)
(* C10.  When the engine answers every request with tool calls (and never  *)
(* fails), the loop terminates: handleGenerate returns a result, not an    *)
(* error, and the result counts exactly StepLimit steps.                   *)
(***************************************************************************)
C10_StopsAtLimit ==
  /\ [](onlyTools /\ lpc # "failed") => <>(lpc = "returned" /\ ret.steps = StepLimit)
  /\ []((lpc = "returned" /\ onlyTools) => ret.steps = StepLimit)

\* the handler returned and every answer of the engine had asked for tools
C10_Witness ==
  /\ lpc = "returned"
  /\ onlyTools
  /\ ret.steps = StepLimit
  /\ ncalls = MaxCalls

(***************************************************************************)
(* Vocabulary of the properties of a turn.                                 *)
(***************************************************************************)
\* the file system and the results after the first k calls of cs have been
\* run one after the other, in the order of cs, from the file system f
RECURSIVE RunInOrder(_, _, _)
RunInOrder(f, cs, k) ==
  IF k = 0 THEN [fs |-> f, results |-> <<>>]
  ELSE LET before == RunInOrder(f, cs, k - 1)
           r == Execute(before.fs, cs[k].input)
       IN  [fs |-> r.fs,
            results |-> Append(before.results,
                               [toolCallId |-> cs[k].toolCallId,
                                result |-> ToolResult(r)])]

\* the call at position k of the turn is the editor command cmd on g
IsEdit(k, cmd) ==
  /\ toolCalls[k].input.tool = EditorTool
  /\ toolCalls[k].input.command = cmd
  /\ resolve(toolCalls[k].input.path) = "g"

(***************************************************************************)
(* C11.  The tool calls of a turn are executed one after the other in the  *)
(* order received: what the calls executed so far have returned, and the   *)
(* file system they have left, are those of running them in order, each on *)
(* the file system the one before it left; a view that follows a create of *)
(* the same file in a turn returns the text created.                       *)
(***************************************************************************)
C11_SequentialInOrder ==
  LET done == Len(toolResults)
      run == RunInOrder(turnFs, toolCalls, done)
  IN  /\ done <= Len(toolCalls)
      /\ toolResults = run.results
      /\ fs = run.fs
      /\ \A k \in 2 .. done :
           (IsEdit(k - 1, "create") /\ IsEdit(k, "view")) =>
              /\ ~toolResults[k].result.isError
              /\ toolResults[k].result.out = toolCalls[k - 1].input.file_text

\* a turn [create(g, "a"), view(g)] on a file system without g has run
C11_Witness ==
  /\ turnFs["g"].kind = "none"
  /\ Len(toolCalls) = 2
  /\ Len(toolResults) = 2
  /\ IsEdit(1, "create")
  /\ IsEdit(2, "view")
  /\ toolResults[2].result.out = << "a" >>

(***************************************************************************)
(* C12.  Every tool call of a turn is executed once and gives one result,  *)
(* and the results are appended in call order before the next request to   *)
(* the engine: the results are always those of the first calls of the      *)
(* turn, one for each and in their order, the calls still to run are the   *)
(* others, and at every request to the engine (and when the loop has       *)
(* ended) every call of the turn has its result.                           *)
(***************************************************************************)
C12_EveryCallOneResult ==
  /\ Len(toolResults) <= Len(toolCalls)
  /\ \A i \in 1 .. Len(toolResults) :
        toolResults[i].toolCallId = toolCalls[i].toolCallId
  /\ \A i, j \in 1 .. Len(toolCalls) :
        toolCalls[i].toolCallId = toolCalls[j].toolCallId => i = j
  /\ lpc = "tools" => pending = Len(toolCalls) - Len(toolResults)
  /\ lpc \in { "model", "finished", "returned", "failed" } =>
        Len(toolResults) = Len(toolCalls)

\* the engine is asked again after two steps, the last one a turn of
\* MaxCalls tool calls that began with a command
C12_Witness ==
  /\ lpc = "model"
  /\ nsteps = 2
  /\ Len(toolCalls) = MaxCalls
  /\ Len(toolResults) = MaxCalls
  /\ toolCalls[1].input.tool = BashTool

\* the operation of a tool call fails on the file system f: the file is
\* not found, the pattern is not found, the shell cannot be spawned, the
\* command runs into the timeout, or it exits with a non-zero status
OperationFails(in, f) ==
  IF in.tool = BashTool
    THEN /\ ~in.restart
         /\ \/ ~in.bash.spawns
            \/ in.bash.duration > TimeoutMs
            \/ in.bash.status # 0
    ELSE LET entry == f[resolve(in.path)]
         IN  \/ /\ in.command \in { "view", "str_replace", "insert" }
                /\ entry.kind = "none"
             \/ /\ in.command = "str_replace"
                /\ entry.kind = "file"
                /\ Occurrences(entry.data, in.old_str) = {}

\* the pieces the texts of failures begin with
ErrorHeads == { "Error: ", "Error: File ", "Error: old_str not found in " }

(***************************************************************************)
(* C13.  A tool-level error never ends the loop.  Whenever the operation   *)
(* of a tool call fails (file not found, pattern not found, non-zero exit, *)
(* timeout, spawn failure), the text of the failure is appended as the     *)
(* result of that call, the loop does not fail, and it ends with this step *)
(* only when the step limit is reached: with calls of the turn left it     *)
(* runs the next one, and else, below the step limit, the engine is asked  *)
(* again with this result in the transcript.                               *)
(***************************************************************************)
C13_ToolErrorsKeepLoop ==
  [][(/\ Len(toolResults') = Len(toolResults) + 1
      /\ OperationFails(toolCalls[Len(toolResults')].input, fs))
       => LET res == toolResults'[Len(toolResults')]
          IN  /\ res.toolCallId = toolCalls[Len(toolResults')].toolCallId
              /\ res.result.out # <<>>
              /\ res.result.out[1] \in ErrorHeads
              /\ lpc' \in { "tools", "model", "finished" }
              /\ pending' > 0 => lpc' = "tools"
              /\ (pending' = 0 /\ nsteps' < StepLimit) => lpc' = "model"
              /\ lpc' = "finished" => nsteps' = StepLimit]_vars

\* the engine is asked again after a turn whose last call, a command, ran
\* into the timeout
C13_Witness ==
  /\ lpc = "model"
  /\ Len(toolResults) = Len(toolCalls)
  /\ Len(toolCalls) > 0
  /\ LET n == Len(toolCalls)
     IN  /\ toolCalls[n].input.tool = BashTool
         /\ toolCalls[n].input.bash.duration > TimeoutMs
         /\ OperationFails(toolCalls[n].input, pre)
         /\ toolResults[n].result.out[2] = "spawnSync /bin/sh ETIMEDOUT"

(***************************************************************************)
(* Vocabulary of the properties of the bash tool.  They speak of the last  *)
(* call when it was a call of the bash tool: sh is the call, pre the file  *)
(* system before it.                                                       *)
(***************************************************************************)
BashDone == last.cmd = "bash"

\* the call started the command and the shell was spawned
Spawned == BashDone /\ ~sh.restart /\ sh.command.spawns

InTime == sh.command.duration <= TimeoutMs
InCap == Len(sh.command.stdout) <= MaxBuffer /\ Len(sh.command.stderr) <= MaxBuffer

\* the outcomes of the command of the last call
ExitedZero == Spawned /\ InTime /\ InCap /\ sh.command.status = 0
ExitedNonZero == Spawned /\ InTime /\ InCap /\ sh.command.status # 0
TimedOut == Spawned /\ ~InTime
Overflowed == Spawned /\ InTime /\ ~InCap
SpawnFailed == BashDone /\ ~sh.restart /\ ~sh.command.spawns

\* the characters of an output: U+FFFD for a byte that is not valid UTF-8
AsText(bytes) ==
  [i \in 1 .. Len(bytes) |-> IF bytes[i] = InvalidByte THEN Replacement ELSE bytes[i]]

ValidUtf8(bytes) == \A i \in 1 .. Len(bytes) : bytes[i] # InvalidByte

NoOutputText == << "Command executed successfully (no output)" >>

(***************************************************************************)
(* C14 (as stated).  The execute of the bash tool never throws: for every  *)
(* input and every outcome of the command it returns a text, and for every *)
(* failure outcome (non-zero exit, timeout, spawn failure, output over the *)
(* cap) the result is marked as an error result.                           *)
(***************************************************************************)
C14_NeverRaisesFailuresFlagged ==
  BashDone =>
    /\ ~last.threw
    /\ sh.result.out # <<>>
    /\ (ExitedNonZero \/ TimedOut \/ Overflowed \/ SpawnFailed) => sh.result.isError

(***************************************************************************)
(* C15 (as stated).  A command that exits 0 within the timeout and within  *)
(* the output cap returns its standard output verbatim, for every output   *)
(* including the empty one, and the result is not an error.                *)
(***************************************************************************)
C15_StdoutVerbatim ==
  ExitedZero =>
    /\ sh.result.out = sh.command.stdout
    /\ ~sh.result.isError

(***************************************************************************)
(* C15 (amended).  A command that exits 0 within the timeout and within    *)
(* the output cap returns its standard output verbatim when the output is  *)
(* not empty and is valid UTF-8; for the empty output it returns the text  *)
(* "Command executed successfully (no output)"; a byte that is not valid   *)
(* UTF-8 comes back as U+FFFD.  The result is not an error.                *)
(***************************************************************************)
C15_StdoutOrNotice ==
  ExitedZero =>
    /\ ~sh.result.isError
    /\ sh.command.stdout = <<>> => sh.result.out = NoOutputText
    /\ (sh.command.stdout # <<>> /\ ValidUtf8(sh.command.stdout)) =>
          sh.result.out = sh.command.stdout
    /\ sh.command.stdout # <<>> => sh.result.out = AsText(sh.command.stdout)

\* a command that ended its output with a line feed returned it whole
C15_Witness ==
  /\ ExitedZero
  /\ sh.command.stdout = << "a", NL >>
  /\ sh.result.out = << "a", NL >>

(***************************************************************************)
(* C16.  When a command exits with a non-zero status, the text returned    *)
(* holds the failure message, the captured standard error and the          *)
(* captured standard output of the command.                                *)
(***************************************************************************)
C16_FailureCarriesOutput ==
  ExitedNonZero =>
    LET out == sh.result.out
    IN  /\ Len(out) >= 3
        /\ SubSeq(out, 1, 3) = << "Error: ", "Command failed: ", sh.command.name >>
        /\ \E i, j \in 1 .. Len(out) :
              /\ i < j
              /\ out[i] = "\nStderr: "
              /\ out[j] = "\nStdout: "
              /\ SubSeq(out, i + 1, j - 1) = AsText(sh.command.stderr)
              /\ SubSeq(out, j + 1, Len(out)) = AsText(sh.command.stdout)

\* a command that wrote to both streams exited with status 2
C16_Witness ==
  /\ ExitedNonZero
  /\ sh.command.stderr = << "e" >>
  /\ sh.command.stdout = << "o" >>
  /\ sh.result.out = << "Error: ", "Command failed: ", "ls x", NL, "e",
                        "\nStderr: ", "e", "\nStdout: ", "o" >>

(***************************************************************************)
(* C17.  A command still running when the timeout of 30 s expires does not *)
(* hang the call: execute returns a text that reports an error, and this   *)
(* text differs, in the message it begins with, from the text of every     *)
(* failure by a non-zero exit status.                                      *)
(***************************************************************************)
C17_TimeoutDistinguished ==
  TimedOut =>
    LET out == sh.result.out
    IN  /\ ~last.threw
        /\ Len(out) >= 2
        /\ out[1] = "Error: "
        /\ out[2] = "spawnSync /bin/sh ETIMEDOUT"
        /\ \A c \in Commands :
              (c.spawns /\ c.duration <= TimeoutMs /\ c.status # 0
                 /\ Len(c.stdout) <= MaxBuffer /\ Len(c.stderr) <= MaxBuffer) =>
                 /\ ExecBash(pre, c, FALSE).out # out
                 /\ ExecBash(pre, c, FALSE).out[2] # out[2]

\* a command of 60 s was called; what it had written is in the result
C17_Witness ==
  /\ TimedOut
  /\ sh.command.duration = 60000
  /\ sh.result.out = << "Error: ", "spawnSync /bin/sh ETIMEDOUT", "\nStderr: ",
                        "\nStdout: ", "a" >>

(***************************************************************************)
(* C18.  When a command writes more output than the cap, the text returned *)
(* signals it: it is the text of an error that names the overflow of the   *)
(* buffer, never the output (whole or cut at the cap) returned as the      *)
(* output of a successful command.                                         *)
(***************************************************************************)
C18_OverflowSignalled ==
  Overflowed =>
    LET out == sh.result.out
    IN  /\ Len(out) >= 2
        /\ out[1] = "Error: "
        /\ out[2] = "spawnSync /bin/sh ENOBUFS"
        /\ \A n \in 0 .. Len(sh.command.stdout) :
              out # AsText(SubSeq(sh.command.stdout, 1, n))
        /\ out # NoOutputText

\* a command wrote one byte more than the cap
C18_Witness ==
  /\ Overflowed
  /\ Len(sh.command.stdout) = MaxBuffer + 1
  /\ sh.result.out[2] = "spawnSync /bin/sh ENOBUFS"

(***************************************************************************)
(* C19.  When the bash tool is called with restart set, no command is      *)
(* started, whatever the command field holds, no file is changed, and the  *)
(* confirmation "Bash session restarted" is returned.                      *)
(***************************************************************************)
C19_RestartRunsNothing ==
  (BashDone /\ sh.restart) =>
    /\ sh.runs = 0
    /\ fs = pre
    /\ ~last.threw
    /\ sh.result = [out |-> << "Bash session restarted" >>, isError |-> FALSE]

\* restart was set on a call whose command would have overwritten the file
C19_Witness ==
  /\ BashDone
  /\ sh.restart
  /\ sh.command.writes = << "g", << "b" >> >>
  /\ pre["g"] = FileEntry(<< "a" >>)
  /\ fs["g"] = FileEntry(<< "a" >>)

(***************************************************************************)
(* C20 (as stated).  The usage handleGenerate returns is the sum of the    *)
(* token usages of all completed steps of the loop (input, output and      *)
(* total tokens), for every number of steps from 1 to StepLimit.           *)
(***************************************************************************)
C20_UsageIsSum ==
  lpc = "returned" =>
    /\ ret.steps \in 1 .. StepLimit
    /\ ret.usage = total

(***************************************************************************)
(* C21.  The steps value handleGenerate returns is the number of completed *)
(* turns of the loop, whatever the number of tool calls of each turn: the  *)
(* steps counted are the answers the engine has given, less the one whose  *)
(* tool calls are still being run, and the value returned is the number of *)
(* answers.                                                                *)
(***************************************************************************)
C21_StepsCountTurns ==
  /\ nsteps = answers - (IF lpc = "tools" THEN 1 ELSE 0)
  /\ lpc = "returned" => ret.steps = answers

\* the handler returned after StepLimit turns, the last one of MaxCalls
\* tool calls, one of which threw
C21_Witness ==
  /\ lpc = "returned"
  /\ answers = StepLimit
  /\ ret.steps = StepLimit
  /\ ncalls = MaxCalls
  /\ MaxCalls > 1
  /\ toolThrew

(***************************************************************************)
(* Vocabulary of the properties of the handlers and the route.             *)
(***************************************************************************)
\* the text, the usage and the step count of the loop as they stand
Aggregate == [steps |-> nsteps, usage |-> usage, text |-> stepText]

\* the route has answered
Answered == http.status # 0

(***************************************************************************)
(* C22 (as stated).  For the same answers and failures of the engine and   *)
(* the same tool outcomes, the blocking and the streaming handler end      *)
(* alike: whenever a handler returns, the blocking handler returns for     *)
(* these answers too (no request to the engine has failed), and what is    *)
(* returned is the text, usage and step count of the loop.                 *)
(***************************************************************************)
C22_HandlersEndAlike ==
  lpc = "returned" =>
    /\ ~engineFailed
    /\ ret = Aggregate

(***************************************************************************)
(* C23 (as stated).  An error of the engine or its transport is terminal   *)
(* in both handlers: after it no request is made and no tool is run, the   *)
(* handler fails, and the route answers with status 500 and an error       *)
(* object with a message and a details field.                              *)
(***************************************************************************)
C23_EngineErrorTerminal ==
  engineFailed =>
    /\ lpc \in { "failed", "answered" }
    /\ ret = NoResult
    /\ Answered =>
         /\ http.status = 500
         /\ http.body.error # ""
         /\ http.body.details # ""

(***************************************************************************)
(* C24 (as stated).  Every answer of the route is one of two: status 200   *)
(* with a complete object { text, usage, steps }, also when the step limit *)
(* was hit, or an error payload; an object of success is never without     *)
(* returned text.                                                          *)
(***************************************************************************)
C24_ResultOrError ==
  Answered =>
    \/ /\ http.status = 200
       /\ http.body.steps \in 1 .. StepLimit
       /\ http.body.usage # ZeroUsage
       /\ http.body.text # <<>>
    \/ /\ http.status = 500
       /\ http.body.error # ""

(***************************************************************************)
(* C25 (as stated).  When the loop stops because the step limit is         *)
(* reached, the text and the usage returned hold the text and the token    *)
(* usage of all turns, not only those of the last one.                     *)
(***************************************************************************)
C25_LimitKeepsProgress ==
  (lpc = "returned" /\ ret.steps = StepLimit) =>
    /\ ret.text = allText
    /\ ret.usage = total

\* the loop has ended with an answer of the engine (Done), or at all
LoopDone == lpc \in { "finished", "returned" }
LoopTerminal == lpc \in { "finished", "returned", "failed" }

(***************************************************************************)
(* C26.  The loop is done exactly when the engine answers with text and no *)
(* tool call: such an answer ends the loop whatever the number of steps,   *)
(* after the end no request is made and no tool is run, and the loop never *)
(* ends below the step limit after an answer that held tool calls.         *)
(***************************************************************************)
C26_DoneOnPlainText ==
  [][/\ (lpc = "model" /\ answers' = answers + 1 /\ ncalls' = 0) => lpc' = "finished"
     /\ LoopDone =>
          /\ lpc' \in { "finished", "returned" }
          /\ answers' = answers
          /\ pending' = pending
          /\ nsteps' = nsteps
     /\ (lpc # "finished" /\ lpc' = "finished") =>
          (ncalls' = 0 \/ nsteps' = StepLimit)]_vars

\* the handler returned after three steps, below the limit: tool calls ran
\* in the first ones and the last answer was text
C26_Witness ==
  /\ lpc = "returned"
  /\ ret.steps = 3
  /\ ncalls = 0
  /\ toolThrew
  /\ stepText = << "t" >>

(***************************************************************************)
(* C27.  Once the loop is terminal (it has ended or failed) its state no   *)
(* longer changes: no turn is taken, no tool call is run, and the step     *)
(* count, the text and the usage keep the values they had when the loop    *)
(* became terminal; a failed loop stays failed and a returned result stays *)
(* as returned.                                                            *)
(***************************************************************************)
C27_TerminalIsFinal ==
  [][LoopTerminal =>
       /\ lpc' \in { "finished", "returned", "failed" }
       /\ lpc = "failed" => lpc' = "failed"
       /\ lpc = "returned" => (lpc' = "returned" /\ ret' = ret)
       /\ UNCHANGED <<nsteps, stepText, usage, total, allText, answers, ncalls,
                      pending, toolThrew, engineFailed>>]_vars

\* the handler returned what the loop held when it ended after two steps
C27_Witness ==
  /\ lpc = "returned"
  /\ nsteps = 2
  /\ ret = Aggregate
  /\ ret.text = << "t" >>
  /\ ret.usage = Usage(2, 1)

\* how many times x is an element of the sequence q
CountOf(q, x) == Cardinality({ i \in 1 .. Len(q) : q[i] = x })

(***************************************************************************)
(* C28.  The bash tool does not retry: one call starts the command at most *)
(* once, exactly once when restart is not set, whatever the outcome, and   *)
(* the text returned reports one outcome: it holds one error report for a  *)
(* command that failed and none for one that did not.                      *)
(***************************************************************************)
C28_NoRetry ==
  BashDone =>
    /\ sh.runs <= 1
    /\ ~sh.restart => sh.runs = 1
    /\ CountOf(sh.result.out, "Error: ")
         = (IF ExitedNonZero \/ TimedOut \/ Overflowed \/ SpawnFailed THEN 1 ELSE 0)

\* a command that exited with status 1 and wrote nothing was started once
C28_Witness ==
  /\ ExitedNonZero
  /\ sh.command.status = 1
  /\ sh.runs = 1
  /\ sh.result.out = << "Error: ", "Command failed: ", "false", "\nStderr: ",
                        "\nStdout: " >>

\* C29: two sessions of one process, their tool calls interleaved in any
\* order and each naming only its own paths, do not affect each other: after
\* every call the files of each session are what they would be had the other
\* session not run, and the call's result is the one it would have given then.
C29_SessionsIndependent ==
  who \in Sessions =>
    /\ \A s \in Sessions : \A n \in SessionNodes(s) : fs[n] = solo[s][n]
    /\ last.out = soloResult.out
    /\ last.threw = soloResult.threw

\* session 2 has replaced text in its file while session 1 holds a file too
C29_Witness ==
  /\ who = 2
  /\ last.cmd = "str_replace"
  /\ fs["g"].kind = "file"
  /\ fs["g"] # pre["g"]
  /\ fs["d/f"].kind = "file"

Named == { r \in Requests : reqs[r].requestId # "" }

Running == { "model", EditorTool, BashTool, "execSync" }

(***************************************************************************)
(* C32.  After the client has given a request up while its loop was        *)
(* running, the loop sends no further request to the engine.               *)
(***************************************************************************)
C32_CancelStopsLoop ==
  [][\A r \in Requests :
       reqs[r].cancelledIn \in Running => reqs'[r].asked = reqs[r].asked]_vars

\* the model named in the documentation as the default
DocumentedDefault == "anthropic/claude-sonnet-4-5"

(***************************************************************************)
(* C35.  A request without a model is run with the documented default      *)
(* model, which is also the model the handler logs; a request with a model *)
(* is run with that model.                                                 *)
(***************************************************************************)
C35_DefaultModel ==
  \A r \in Requests :
    reqs[r].asked > 0 =>
      IF reqs[r].model = Undefined
        THEN /\ reqs[r].used = DocumentedDefault
             /\ reqs[r].logged = reqs[r].used
        ELSE reqs[r].model # "" => reqs[r].used = reqs[r].model

\* the requests whose command is inside execSync
Executing(q) == { r \in Requests : q[r].pc = "execSync" }

(***************************************************************************)
(* C37.  A command holds the whole process: at most one command is in      *)
(* progress at any time, and while one is, no other request is received,   *)
(* moves in its handler, runs a tool call or is answered.                  *)
(***************************************************************************)
C37_CommandBlocksProcess ==
  [][/\ Cardinality(Executing(reqs')) <= 1
     /\ \A r \in Requests :
          (Executing(reqs) # {} /\ r \notin Executing(reqs)) =>
            /\ reqs'[r].pc = reqs[r].pc
            /\ reqs'[r].turns = reqs[r].turns
            /\ reqs'[r].asked = reqs[r].asked]_vars

\* the command of request 1 runs while request 2 has a command to run
C37_Witness ==
  /\ thread = 1
  /\ reqs[1].pc = "execSync"
  /\ reqs[2].pc = BashTool

(***************************************************************************)
(* C33.  The text view returns for a file is never longer than             *)
(* maxCharacters, whether the whole file or a range of it was asked for.   *)
(***************************************************************************)
C33_ViewBounded ==
  (last.cmd = "view" /\ OnFile /\ ~last.threw) => Len(last.out) <= MaxCharacters

\* the commands of the editor tool
EditorCommands == { "view", "create", "str_replace", "insert" }

\* the directories the documentation wants the editor kept to
AllowedDirs == { "template", "generated" }

\* the absolute path node lies in template/ or generated/; the files the
\* model follows lie in the working directory itself or in its directory d
InsideAllowed(node) == dirname(node) \in AllowedDirs

\* the last call was refused: it threw or returned an error text
Rejected ==
  \/ last.threw
  \/ Len(last.out) > 0 /\ last.out[1] \in ErrorHeads

(***************************************************************************)
(* C34.  A view, create, str_replace or insert whose resolved path lies    *)
(* outside template/ and generated/ is rejected and changes no file.       *)
(***************************************************************************)
C34_PathsValidated ==
  (last.cmd \in EditorCommands /\ ~InsideAllowed(LastNode)) =>
     /\ Rejected
     /\ fs = pre

(***************************************************************************)
(* C36.  Frame of the editor: a view changes no file; a create,            *)
(* str_replace or insert on path p changes at most the file at resolve(p), *)
(* and a create may besides make the missing directory of that file; every *)
(* other file is after the call what it was before, in any sequence of     *)
(* calls.                                                                  *)
(***************************************************************************)
C36_EditorFrame ==
  [][last'.cmd \in EditorCommands =>
       LET node == resolve(last'.path)
       IN  /\ last'.cmd = "view" => fs' = fs
           /\ \A other \in Nodes \ { node } :
                fs'[other] # fs[other] =>
                  /\ last'.cmd = "create"
                  /\ other = dirname(node)
                  /\ fs[other].kind = "none"
                  /\ fs'[other] = DirEntry]_vars

\* d/f was created with its directory d while the file g kept its content
C36_Witness ==
  /\ last.cmd = "create"
  /\ last.path = "d/f"
  /\ ~last.threw
  /\ pre["d"].kind = "none"
  /\ fs["d"] = DirEntry
  /\ fs["d/f"].kind = "file"
  /\ pre["g"].kind = "file"
  /\ pre["g"].data # <<>>
  /\ fs["g"] = pre["g"]

\* topological_sort has returned
Sorted == sorted # <<>>

\* the concepts of the nodes returned, in the order returned
SortedConcepts == [k \in 1 .. Len(sorted) |-> graph[sorted[k]].concept]

\* the positions at which the concept c is returned
PositionsOf(c) == { k \in 1 .. Len(sorted) : SortedConcepts[k] = c }

(***************************************************************************)
(* C38.  topological_sort(root) returns every concept of the tree under    *)
(* the root exactly once, every node returned after the concepts of all    *)
(* its prerequisites, and the root last.                                   *)
(***************************************************************************)
C38_SortIsTopological ==
  Sorted =>
    /\ \A n \in 1 .. Len(graph) : Cardinality(PositionsOf(graph[n].concept)) = 1
    /\ \A k \in 1 .. Len(sorted) :
         \A i \in 1 .. Len(graph[sorted[k]].prerequisites) :
            \E j \in 1 .. (k - 1) :
               SortedConcepts[j] = graph[graph[sorted[k]].prerequisites[i]].concept
    /\ sorted[Len(sorted)] = Root

\* the animation order the document gives for the example tree
DocumentedOrder ==
  << "de Broglie wavelength", "wave function", "Heisenberg uncertainty principle",
     "wave-particle duality", "potential energy", "potential barriers",
     "Schrodinger equation", "quantum tunneling" >>

====
